---------------------------- MODULE Spec2Model ----------------------------
(***************************************************************************)
(* A model of mach, a leveled JSON logger (src/logger.go, src/level.go,    *)
(* src/field.go).                                                          *)
(*                                                                         *)
(* Bytes are the integers 0..255 and a []byte or a string is a sequence of *)
(* bytes.  An int64 is four 16-bit limbs, least significant first, in      *)
(* two's complement, so that negation and division behave as they do on    *)
(* the machine, overflow included.                                         *)
(***************************************************************************)
EXTENDS Integers, Sequences, FiniteSets, TLC

(***************************************************************************)
(* int64 arithmetic on limbs                                               *)
(***************************************************************************)
LimbBase == 2 ^ 16

\* The int64 of a small natural number n < 2^31.
I64(n) == <<n % LimbBase, n \div LimbBase, 0, 0>>

I64Zero == <<0, 0, 0, 0>>

\* math.MinInt64 = -9223372036854775808 = 0x8000000000000000.
I64Min == <<0, 0, 0, 32768>>

\* math.MaxInt64 = 0x7fffffffffffffff.
I64Max == <<65535, 65535, 65535, 32767>>

\* v < 0: the sign bit of the top limb.
I64IsNeg(v) == v[4] >= 32768

\* v > 0.
I64IsPos(v) == v # I64Zero /\ ~I64IsNeg(v)

\* v + 1 modulo 2^64.
I64Inc(v) ==
    LET c1 == IF v[1] = 65535 THEN 1 ELSE 0
        c2 == IF c1 = 1 /\ v[2] = 65535 THEN 1 ELSE 0
        c3 == IF c2 = 1 /\ v[3] = 65535 THEN 1 ELSE 0
    IN  << (v[1] + 1) % LimbBase, (v[2] + c1) % LimbBase,
           (v[3] + c2) % LimbBase, (v[4] + c3) % LimbBase >>

\* -v modulo 2^64 (Go's unary minus on an int64): invert and add one.
I64Neg(v) == I64Inc(<<65535 - v[1], 65535 - v[2], 65535 - v[3], 65535 - v[4]>>)

\* v / 10 and v % 10 for v >= 0, by long division from the top limb.
I64DivMod10(v) ==
    LET c4 == v[4]
        c3 == (c4 % 10) * LimbBase + v[3]
        c2 == (c3 % 10) * LimbBase + v[2]
        c1 == (c2 % 10) * LimbBase + v[1]
    IN  [quo |-> <<c1 \div 10, c2 \div 10, c3 \div 10, c4 \div 10>>,
         rem |-> c1 % 10]

\* v * 10 + d modulo 2^64, for a digit d.
I64Mul10Add(v, d) ==
    LET c1 == v[1] * 10 + d
        c2 == v[2] * 10 + (c1 \div LimbBase)
        c3 == v[3] * 10 + (c2 \div LimbBase)
        c4 == v[4] * 10 + (c3 \div LimbBase)
    IN  <<c1 % LimbBase, c2 % LimbBase, c3 % LimbBase, c4 % LimbBase>>

(***************************************************************************)
(* level.go: Level and AtomicLevel                                         *)
(***************************************************************************)
DebugLevel == -1
InfoLevel  == 0
WarnLevel  == 1
ErrorLevel == 2
FatalLevel == 3

levelNames ==
    << <<68, 69, 66, 85, 71>>,      \* "DEBUG"
       <<73, 78, 70, 79>>,          \* "INFO"
       <<87, 65, 82, 78>>,          \* "WARN"
       <<69, 82, 82, 79, 82>>,      \* "ERROR"
       <<70, 65, 84, 65, 76>> >>    \* "FATAL"

\* func (l Level) String() string
LevelString(l) ==
    LET idx == l + 1
    IN  IF idx >= 0 /\ idx < Len(levelNames)
        THEN levelNames[idx + 1]
        ELSE <<85, 78, 75, 78, 79, 87, 78>>     \* "UNKNOWN"

\* func (al *AtomicLevel) Enabled(l Level) bool, on the value v it loads.
MutEnabledAlways(l, v) == TRUE

Enabled(l, v) == l >= v

(***************************************************************************)
(* level.go (encoder part): string escaping                                *)
(***************************************************************************)
\* safeSet[b]: 0x20..0x7E without the quote and the backslash.
safeSet(b) == b >= 32 /\ b <= 126 /\ b # 34 /\ b # 92

hexDigit(b) == IF b < 10 THEN 48 + b ELSE 97 + b - 10

\* The bytes of s from 0-based index i to the end, s[i:].
From(s, i) == SubSeq(s, i + 1, Len(s))

\* utf8.DecodeRuneInString(t) for a non-empty t whose first byte is >= 0x80:
\* the size consumed and whether the bytes are a valid encoding (the rune is
\* RuneError with size 1 exactly when they are not).
MutDecodeLenient(t) == [valid |-> TRUE, size |-> 1]

DecodeRuneInString(t) ==
    LET s0 == t[1]
        n  == Len(t)
        sz == IF s0 >= 194 /\ s0 <= 223 THEN 2
              ELSE IF s0 >= 224 /\ s0 <= 239 THEN 3
              ELSE IF s0 >= 240 /\ s0 <= 244 THEN 4
              ELSE 0
        lo == IF s0 = 224 THEN 160 ELSE IF s0 = 240 THEN 144 ELSE 128
        hi == IF s0 = 237 THEN 159 ELSE IF s0 = 244 THEN 143 ELSE 191
        cont(b) == b >= 128 /\ b <= 191
        bad == [valid |-> FALSE, size |-> 1]
    IN  IF sz = 0 \/ n < sz THEN bad
        ELSE IF t[2] < lo \/ t[2] > hi THEN bad
        ELSE IF sz = 2 THEN [valid |-> TRUE, size |-> 2]
        ELSE IF ~cont(t[3]) THEN bad
        ELSE IF sz = 3 THEN [valid |-> TRUE, size |-> 3]
        ELSE IF ~cont(t[4]) THEN bad
        ELSE [valid |-> TRUE, size |-> 4]

\* The fast path: from i, the index of the first byte that is not in safeSet
\* (or len(s)).
RECURSIVE SafeRunEnd(_, _)
SafeRunEnd(s, i) ==
    IF i < Len(s) /\ safeSet(s[i + 1]) THEN SafeRunEnd(s, i + 1) ELSE i

\* The slow path for the byte at i (which is not in safeSet): the bytes
\* appended and the number of input bytes consumed.
MutSlowRawControl(s, i) == [out |-> <<s[i + 1]>>, size |-> 1]

SlowPath(s, i) ==
    LET b == s[i + 1]
    IN  IF b >= 128
        THEN LET d == DecodeRuneInString(From(s, i))
             IN  IF ~d.valid
                 THEN [out |-> <<92, 117, 102, 102, 102, 100>>,  \* \ufffd
                       size |-> d.size]
                 ELSE [out |-> SubSeq(s, i + 1, i + d.size), size |-> d.size]
        ELSE [out |-> CASE b = 34 -> <<92, 34>>
                        [] b = 92 -> <<92, 92>>
                        [] b = 10 -> <<92, 110>>
                        [] b = 13 -> <<92, 114>>
                        [] b = 9  -> <<92, 116>>
                        [] OTHER  -> <<92, 117, 48, 48,
                                       hexDigit(b \div 16), hexDigit(b % 16)>>,
              size |-> 1]

\* One iteration of the outer loop of appendEscapedString, entered with
\* i < len(s): the new dst and the new i.
EscapeIter(dst, s, i) ==
    LET j  == SafeRunEnd(s, i)
        d1 == IF j > i THEN dst \o SubSeq(s, i + 1, j) ELSE dst
    IN  IF j >= Len(s)
        THEN [dst |-> d1, i |-> j]
        ELSE LET sp == SlowPath(s, j)
             IN  [dst |-> d1 \o sp.out, i |-> j + sp.size]

RECURSIVE EscapeFrom(_, _, _)
EscapeFrom(dst, s, i) ==
    IF i < Len(s)
    THEN LET r == EscapeIter(dst, s, i) IN EscapeFrom(r.dst, s, r.i)
    ELSE dst

appendEscapedString(dst, s) == EscapeFrom(dst, s, 0)

appendJSONString(dst, s) == appendEscapedString(dst \o <<34>>, s) \o <<34>>

\* appendKey that copies the key as it is.
MutKeyRaw(dst, key) == dst \o <<34>> \o key \o <<34, 58>>

appendKey(dst, key) == appendEscapedString(dst \o <<34>>, key) \o <<34, 58>>

appendBool(dst, v) ==
    IF v THEN dst \o <<116, 114, 117, 101>>          \* "true"
         ELSE dst \o <<102, 97, 108, 115, 101>>      \* "false"

(***************************************************************************)
(* level.go (encoder part): integers, timestamps                           *)
(***************************************************************************)
\* var buf [20]byte
IntBufLen == 20

ZeroBuf == [k \in 1..IntBufLen |-> 0]

\* The test `v == -9223372036854775808` made after the '-' is appended.
MutNoMinCase(v) == FALSE

IsMinInt64(v) == v = I64Min

\* One iteration of `for v > 0 { i--; buf[i] = byte(v%10) + '0'; v /= 10 }`.
IntLoopIter(v, buf, i) ==
    LET qr == I64DivMod10(v)
    IN  [v |-> qr.quo, buf |-> [buf EXCEPT ![i] = qr.rem + 48], i |-> i - 1]

RECURSIVE IntLoop(_, _, _)
IntLoop(v, buf, i) ==
    IF I64IsPos(v)
    THEN LET r == IntLoopIter(v, buf, i) IN IntLoop(r.v, r.buf, r.i)
    ELSE [v |-> v, buf |-> buf, i |-> i]

\* "9223372036854775808"
MinMagnitude ==
    <<57, 50, 50, 51, 51, 55, 50, 48, 51, 54, 56, 53, 52, 55, 55, 53, 56, 48, 56>>

appendInt64(dst, v) ==
    IF v = I64Zero THEN dst \o <<48>>
    ELSE LET neg == I64IsNeg(v)
             d1  == IF neg THEN dst \o <<45>> ELSE dst
         IN  IF neg /\ IsMinInt64(v) THEN d1 \o MinMagnitude
             ELSE LET r == IntLoop(IF neg THEN I64Neg(v) ELSE v,
                                   ZeroBuf, IntBufLen)
                  IN  d1 \o SubSeq(r.buf, r.i + 1, IntBufLen)

\* t.AppendFormat(dst, time.RFC3339Nano) for the instant t seconds after the
\* epoch, 0 <= t < 60, in UTC: "1970-01-01T00:00:SSZ" (a whole second has no
\* fraction in this layout).
RFC3339Nano(t) ==
    <<49, 57, 55, 48, 45, 48, 49, 45, 48, 49, 84, 48, 48, 58, 48, 48, 58>>
        \o <<48 + (t \div 10), 48 + (t % 10), 90>>

appendTime(dst, t) == (dst \o <<34>> \o RFC3339Nano(t)) \o <<34>>

(***************************************************************************)
(* Natural numbers of any size, for the exact value of a float64: a        *)
(* sequence of 16-bit limbs, least significant first, with no leading zero *)
(* limb (zero is <<>>).  The limbs of a non-negative int64 are such a      *)
(* number once normalised.                                                 *)
(***************************************************************************)
\* The function f on 1..n as the sequence of its values.
Tuple(f) == SubSeq(f, 1, Len(f))

RECURSIVE NNorm(_)
NNorm(a) ==
    IF a = <<>> \/ a[Len(a)] # 0 THEN a ELSE NNorm(SubSeq(a, 1, Len(a) - 1))

\* The number n, 0 <= n < 2^31.
NFromInt(n) == NNorm(<<n % LimbBase, n \div LimbBase>>)

NLimb(a, k) == IF k >= 1 /\ k <= Len(a) THEN a[k] ELSE 0

RECURSIVE NAddC(_, _, _, _)
NAddC(a, b, k, c) ==
    IF k > Len(a) /\ k > Len(b) THEN (IF c = 1 THEN <<1>> ELSE <<>>)
    ELSE LET s == NLimb(a, k) + NLimb(b, k) + c
         IN  <<s % LimbBase>> \o NAddC(a, b, k + 1, s \div LimbBase)

NAdd(a, b) == NAddC(a, b, 1, 0)

\* a - b for a >= b.
RECURSIVE NSubC(_, _, _, _)
NSubC(a, b, k, c) ==
    IF k > Len(a) THEN <<>>
    ELSE LET s == NLimb(a, k) - NLimb(b, k) - c
         IN  <<s % LimbBase>> \o NSubC(a, b, k + 1, IF s < 0 THEN 1 ELSE 0)

NSub(a, b) == NNorm(NSubC(a, b, 1, 0))

RECURSIVE NLessFrom(_, _, _)
NLessFrom(a, b, k) ==
    IF k = 0 THEN FALSE
    ELSE IF a[k] # b[k] THEN a[k] < b[k]
    ELSE NLessFrom(a, b, k - 1)

NLess(a, b) ==
    IF Len(a) # Len(b) THEN Len(a) < Len(b) ELSE NLessFrom(a, b, Len(a))

\* a * c for 0 <= c < 2^15.
RECURSIVE NMulC(_, _, _, _)
NMulC(a, c, k, carry) ==
    IF k > Len(a) THEN (IF carry = 0 THEN <<>> ELSE <<carry>>)
    ELSE LET s == a[k] * c + carry
         IN  <<s % LimbBase>> \o NMulC(a, c, k + 1, s \div LimbBase)

NMulSmall(a, c) == NNorm(NMulC(a, c, 1, 0))

\* a div c and a mod c for 0 < c < 2^15, from the top limb down.
RECURSIVE NDivFrom(_, _, _, _)
NDivFrom(a, c, k, rem) ==
    IF k = 0 THEN [quo |-> <<>>, rem |-> rem]
    ELSE LET cur == rem * LimbBase + a[k]
             low == NDivFrom(a, c, k - 1, cur % c)
         IN  [quo |-> Append(low.quo, cur \div c), rem |-> low.rem]

NDivSmall(a, c) ==
    LET r == NDivFrom(a, c, Len(a), 0)
    IN  [quo |-> NNorm(r.quo), rem |-> r.rem]

\* The number of bits of a: 0 for zero.
NBitLen(a) ==
    IF a = <<>> THEN 0
    ELSE 16 * (Len(a) - 1)
            + (CHOOSE n \in 1..16 : 2 ^ (n - 1) <= a[Len(a)] /\ a[Len(a)] < 2 ^ n)

\* a div 2^k.
NShr(a, k) ==
    LET q == k \div 16
        r == k % 16
    IN  IF q >= Len(a) THEN <<>>
        ELSE NNorm(Tuple([j \in 1..(Len(a) - q) |->
                        (a[j + q] \div (2 ^ r))
                            + (NLimb(a, j + q + 1) % (2 ^ r)) * (2 ^ (16 - r))]))

\* a * 2^k.
NShl(a, k) ==
    LET q == k \div 16
        r == k % 16
    IN  IF a = <<>> THEN <<>>
        ELSE NNorm(Tuple([j \in 1..(Len(a) + q + 1) |->
                        IF j <= q THEN 0
                        ELSE (NLimb(a, j - q) % (2 ^ (16 - r))) * (2 ^ r)
                                + (NLimb(a, j - q - 1) \div (2 ^ (16 - r)))]))

\* a mod 2^k.
NLow(a, k) == NSub(a, NShl(NShr(a, k), k))

\* 2^k.
NPow2(k) == NShl(<<1>>, k)

\* 10^n.
RECURSIVE NPow10(_)
NPow10(n) == IF n = 0 THEN <<1>> ELSE NMulSmall(NPow10(n - 1), 10)

(***************************************************************************)
(* float64: a value is NaN, an infinity, or (-1)^neg * m * 2^e with m a    *)
(* natural number (zero when m is <<>>).  Sums and products are computed   *)
(* exactly and then rounded to 53 bits, to nearest, ties to even, as the   *)
(* machine does.  The exponent range is not enforced: no value the encoder *)
(* computes is subnormal unless it is below 1/2, where math.Round gives 0  *)
(* either way, and a value that would overflow to +Inf is out of int64's   *)
(* range either way.                                                       *)
(***************************************************************************)
\* What int64(x) gives for an x outside int64's range is left to the
\* implementation by the language: 0x8000000000000000 on amd64, the nearest
\* end of the range on arm64, riscv64 and wasm.
VARIABLE build

Builds == {"indefinite", "saturating"}

Fin(neg, m, e) == [cls |-> "fin", neg |-> neg, m |-> m, e |-> e]

NaN == [cls |-> "nan", neg |-> FALSE, m |-> <<>>, e |-> 0]

Inf(neg) == [cls |-> "inf", neg |-> neg, m |-> <<>>, e |-> 0]

\* math.Float64frombits(b), b the 64 bits in limbs.
Float64frombits(b) ==
    LET neg  == b[4] >= 32768
        ex   == (b[4] % 32768) \div 16
        frac == NNorm(<<b[1], b[2], b[3], b[4] % 16>>)
    IN  IF ex = 2047 THEN (IF frac = <<>> THEN Inf(neg) ELSE NaN)
        ELSE IF ex = 0 THEN Fin(neg, frac, -1074)
        ELSE Fin(neg, NAdd(frac, NPow2(52)), ex - 1075)

\* The value x rounded to a float64.
\* q, or q + 1 when the k bits dropped, r, are more than half (2^(k-1)), or
\* are half and q is odd.
RoundHalfEven(q, r, half) ==
    IF NLess(half, r) \/ (r = half /\ q[1] % 2 = 1) THEN NAdd(q, <<1>>) ELSE q

\* x with the last k bits of its significand rounded away.
FRoundBy(x, k) ==
    Fin(x.neg, RoundHalfEven(NShr(x.m, k), NLow(x.m, k), NPow2(k - 1)), x.e + k)

FRound(x) == IF NBitLen(x.m) <= 53 THEN x ELSE FRoundBy(x, NBitLen(x.m) - 53)

\* x + y, exactly.
\* (-1)^xneg * mx * 2^e0 + (-1)^yneg * my * 2^e0.
DAddAligned(xneg, mx, yneg, my, e0) ==
    IF xneg = yneg THEN Fin(xneg, NAdd(mx, my), e0)
    ELSE IF NLess(mx, my) THEN Fin(yneg, NSub(my, mx), e0)
    ELSE Fin(xneg /\ mx # my, NSub(mx, my), e0)

MinOf(a, b) == IF a < b THEN a ELSE b

DAdd(x, y) ==
    DAddAligned(x.neg, NShl(x.m, x.e - MinOf(x.e, y.e)),
                y.neg, NShl(y.m, y.e - MinOf(x.e, y.e)), MinOf(x.e, y.e))

\* The float64 x - y.
FSub(x, y) == FRound(DAdd(x, [y EXCEPT !.neg = ~y.neg]))

\* The float64 x + y.
FAdd(x, y) == FRound(DAdd(x, y))

\* The float64 x * 1e6 (1e6 is 15625 * 2^6).
FMul1e6(x) == FRound(Fin(x.neg, NMulSmall(x.m, 15625), x.e + 6))

\* The integer part of |x|, for |x| < 2^64 (and 2^64 for anything larger).
TruncMag(x) ==
    IF x.e >= 0
    THEN (IF NBitLen(x.m) + x.e > 64 THEN NPow2(64) ELSE NShl(x.m, x.e))
    ELSE (IF -x.e >= NBitLen(x.m) THEN <<>> ELSE NShr(x.m, -x.e))

\* v == math.Trunc(v)
IsWhole(x) ==
    IF x.e >= 0 \/ x.m = <<>> THEN TRUE
    ELSE IF -x.e >= NBitLen(x.m) THEN FALSE
    ELSE NLow(x.m, -x.e) = <<>>

\* v < 1e15, for v >= 0.
Below1e15(x) == NLess(TruncMag(x), NPow10(15))

\* math.Round(x): to the nearest integer, halves away from zero.
Round(x) ==
    IF x.e >= 0 THEN x
    ELSE IF -x.e > NBitLen(x.m) THEN Fin(x.neg, <<>>, 0)
    ELSE IF NLess(NLow(x.m, -x.e), NPow2(-x.e - 1))
    THEN Fin(x.neg, NShr(x.m, -x.e), 0)
    ELSE Fin(x.neg, NAdd(NShr(x.m, -x.e), <<1>>), 0)

\* A natural number below 2^64 as four limbs.
Limbs4(a) == Tuple([j \in 1..4 |-> NLimb(a, j)])

\* int64(x): x truncated toward zero; outside the range, what the build gives.
ToInt64Of(neg, t) ==
    IF (IF neg THEN ~NLess(NPow2(63), t) ELSE NLess(t, NPow2(63)))
    THEN (IF neg THEN I64Neg(Limbs4(t)) ELSE Limbs4(t))
    ELSE IF build = "saturating"
    THEN (IF neg THEN I64Min ELSE I64Max)
    ELSE I64Min

ToInt64(x) == ToInt64Of(x.neg, TruncMag(x))

\* float64(i) for an int64 i.
FromInt64(i) ==
    FRound(Fin(I64IsNeg(i), NNorm(IF I64IsNeg(i) THEN I64Neg(i) ELSE i), 0))

(***************************************************************************)
(* level.go (encoder part): floats and durations                           *)
(***************************************************************************)
\* v / 10 and v % 10 as Go defines them for any int64: the quotient is
\* truncated toward zero and the remainder has the sign of v.
SDivMod10(v) ==
    IF I64IsNeg(v)
    THEN LET qr == I64DivMod10(I64Neg(v))
         IN  [quo |-> I64Neg(qr.quo), rem |-> -qr.rem]
    ELSE I64DivMod10(v)

\* for i := 5; i >= 0; i-- { fbuf[i] = byte(fracPart%10) + '0'; fracPart /= 10 }
\* (byte arithmetic is modulo 256).
RECURSIVE FracLoop(_, _, _)
FracLoop(fracPart, fbuf, i) ==
    IF i < 0 THEN fbuf
    ELSE LET qr == SDivMod10(fracPart)
         IN  FracLoop(qr.quo, [fbuf EXCEPT ![i + 1] = (qr.rem + 48) % 256], i - 1)

\* for end > 1 && fbuf[end-1] == '0' { end-- }
RECURSIVE TrimEnd(_, _)
TrimEnd(fbuf, end) ==
    IF end > 1 /\ fbuf[end] = 48 THEN TrimEnd(fbuf, end - 1) ELSE end

\* Lines 245-249: intPart and fracPart of a v > 0 taken by the slow path.
\* if fracPart < 0 { fracPart = -fracPart }
NegIfNeg(fracPart) == IF I64IsNeg(fracPart) THEN I64Neg(fracPart) ELSE fracPart

\* fracPart, lines 246-249, given intPart.
FracPartOf(v, intPart) ==
    NegIfNeg(ToInt64(Round(FMul1e6(FSub(v, FromInt64(intPart))))))

FloatPartsOf(v, intPart) ==
    [intPart |-> intPart, fracPart |-> FracPartOf(v, intPart)]

FloatParts(v) == FloatPartsOf(v, ToInt64(v))

\* dst = append(dst, fbuf[:end]...)
Trimmed(fbuf) == SubSeq(fbuf, 1, TrimEnd(fbuf, 6))

\* Lines 251-264: the integer part, the point, six digits trimmed.
SlowText(dst, p) ==
    (appendInt64(dst, p.intPart) \o <<46>>)
        \o Trimmed(FracLoop(p.fracPart, [k \in 1..6 |-> 0], 5))

\* func appendFloat64(dst []byte, v float64) []byte
appendFloat64(dst, v) ==
    IF v.cls = "nan" THEN dst \o <<34, 78, 97, 78, 34>>                \* "NaN"
    ELSE IF v.cls = "inf" /\ ~v.neg THEN dst \o <<34, 43, 73, 110, 102, 34>>
    ELSE IF v.cls = "inf" THEN dst \o <<34, 45, 73, 110, 102, 34>>
    ELSE IF v.m = <<>> THEN dst \o <<48>>
    ELSE LET a  == [v EXCEPT !.neg = FALSE]
             d1 == IF v.neg THEN dst \o <<45>> ELSE dst
         IN  IF IsWhole(a) /\ Below1e15(a) THEN appendInt64(d1, ToInt64(a))
             ELSE SlowText(d1, FloatParts(a))

\* d / 1e9 and d % 1e9 for an int64 d, truncated toward zero.
DivMod1e9(d) ==
    LET neg == I64IsNeg(d)
        mag == NNorm(IF neg THEN I64Neg(d) ELSE d)
        q1  == NDivSmall(mag, 1000)
        q2  == NDivSmall(q1.quo, 1000)
        q3  == NDivSmall(q2.quo, 1000)
    IN  [neg |-> neg, quo |-> q3.quo,
         rem |-> NFromInt((q3.rem * 1000 + q2.rem) * 1000 + q1.rem)]

\* The float64 n / 1e9 for a natural number n < 1e9: the quotient to 60 bits
\* and more, with one more bit that says whether anything was left over.
FDiv1e9(neg, n) ==
    IF n = <<>> THEN Fin(neg, <<>>, 0)
    ELSE LET q1 == NDivSmall(NShl(n, 90), 1000)
             q2 == NDivSmall(q1.quo, 1000)
             q3 == NDivSmall(q2.quo, 1000)
             sticky == IF q1.rem # 0 \/ q2.rem # 0 \/ q3.rem # 0 THEN <<1>> ELSE <<>>
         IN  FRound(Fin(neg, NAdd(NShl(q3.quo, 1), sticky), -91))

\* time.Duration.Seconds: sec := d / Second; nsec := d % Second;
\* float64(sec) + float64(nsec)/1e9.
SecondsOf(qr) == FAdd(FRound(Fin(qr.neg, qr.quo, 0)), FDiv1e9(qr.neg, qr.rem))

Seconds(d) == SecondsOf(DivMod1e9(d))

\* func appendDuration(dst []byte, d time.Duration) []byte
appendDuration(dst, d) == appendFloat64(dst, Seconds(d))

(***************************************************************************)
(* field.go: the tagged field value                                        *)
(***************************************************************************)
StringType   == 0
IntType      == 1
Int64Type    == 2
Float64Type  == 3
BoolType     == 4
DurationType == 5
ErrorType    == 6
TimeType     == 7
BytesType    == 8

Field(key, type, ival, str, bval) ==
    [Key |-> key, Type |-> type, Ival |-> ival, Str |-> str, Bval |-> bval]

String(key, val) == Field(key, StringType, I64Zero, val, <<>>)

IntField(key, val) == Field(key, IntType, val, <<>>, <<>>)

Int64(key, val) == Field(key, Int64Type, val, <<>>, <<>>)

Bool(key, val) == Field(key, BoolType, IF val THEN I64(1) ELSE I64Zero, <<>>, <<>>)

\* An error value is nil or carries the text its Error() returns.
NilError == [isNil |-> TRUE, text |-> <<>>]

ErrorOf(text) == [isNil |-> FALSE, text |-> text]

ErrorKey == <<101, 114, 114, 111, 114>>     \* "error"

\* Err without the nil test.
MutErrNoNilCase(val) == Field(ErrorKey, ErrorType, I64Zero, val.text, <<>>)

Err(val) ==
    IF val.isNil
    THEN Field(ErrorKey, StringType, I64Zero, <<>>, <<>>)
    ELSE Field(ErrorKey, ErrorType, I64Zero, val.text, <<>>)

Bytes(key, val) == Field(key, BytesType, I64Zero, <<>>, val)

\* Float64(key, val), on the bits of val: Ival is int64(math.Float64bits(val)).
Float64(key, bits) == Field(key, Float64Type, bits, <<>>, <<>>)

Duration(key, val) == Field(key, DurationType, val, <<>>, <<>>)

\* func appendField(dst []byte, f Field) []byte.  Fields of TimeType are not
\* built by this model.
appendField(dst, f) ==
    LET d == appendKey(dst, f.Key)
    IN  CASE f.Type = StringType -> appendJSONString(d, f.Str)
          [] f.Type \in {IntType, Int64Type} -> appendInt64(d, f.Ival)
          [] f.Type = Float64Type -> appendFloat64(d, Float64frombits(f.Ival))
          [] f.Type = BoolType -> appendBool(d, f.Ival = I64(1))
          [] f.Type = DurationType -> appendDuration(d, f.Ival)
          [] f.Type = ErrorType -> appendJSONString(d, f.Str)
          [] f.Type = BytesType -> appendJSONString(d, f.Bval)
          [] OTHER -> d

\* for _, f := range fields { b = append(b, ','); b = appendField(b, f) }
RECURSIVE appendFields(_, _)
appendFields(dst, fields) ==
    IF fields = <<>> THEN dst
    ELSE appendFields(appendField(dst \o <<44>>, Head(fields)), Tail(fields))

(***************************************************************************)
(* The state                                                               *)
(***************************************************************************)
VARIABLES
    heap,       \* the byte arrays: heap[a] is the content of array a
    gates,      \* the AtomicLevel objects: gates[g] is the field v
    pools,      \* the gohotpool.Pool objects: pools[p] is its free buffers
    bufs,       \* the gohotpool.Buffer objects: bufs[i].B is a slice
    loggers,    \* the Logger objects
    calls,      \* every call made so far, in flight or returned
    sink,       \* what the output sink received, one entry per Write
    clock,      \* the number of time.Now() readings so far
    exited,     \* os.Exit was called
    hist,       \* history: each logger's root and each root's last SetLevel
    esc,        \* one run of appendJSONString, step by step
    itoa,       \* one run of appendInt64, step by step
    ftoa,       \* one run of appendFloat64 or appendDuration, step by step
    mk          \* one field built by Err and rendered by appendField

\* The runs of the float and field encoders, and the build.
moreVars == <<ftoa, mk, build>>

\* No float or field run is in progress.
NoRuns == ftoa = [pc |-> "off"] /\ mk = [pc |-> "off"]

\* The same, on the amd64 build: where no float is converted the build
\* makes no difference.
MoreOff == NoRuns /\ build = "indefinite"

vars == <<heap, gates, pools, bufs, loggers, calls, sink, clock, exited,
          hist, esc, itoa, moreVars>>

loggerVars == <<heap, gates, pools, bufs, loggers, calls, sink, clock,
                exited, hist>>

(***************************************************************************)
(* Slices over the heap                                                    *)
(***************************************************************************)
\* A slice is an array and a length; the nil slice has no array.
NilSlice == [arr |-> 0, len |-> 0]

\* The bytes a slice shows.
Read(h, s) == IF s.arr = 0 THEN <<>> ELSE SubSeq(h[s.arr], 1, s.len)

\* The heap after the slice over array a is made to show `bytes`: the array
\* keeps whatever it held beyond them (no array of the model outgrows its
\* capacity, DefaultBufferSize being 1024).
Store(h, a, bytes) ==
    [h EXCEPT ![a] = bytes \o SubSeq(h[a], Len(bytes) + 1, Len(h[a]))]

\* The logger's part of the state while a pure function is being run.
LoggerOff ==
    /\ heap = <<>> /\ gates = <<>> /\ pools = <<>> /\ bufs = <<>>
    /\ loggers = <<>> /\ calls = <<>> /\ sink = <<>> /\ clock = 0
    /\ exited = FALSE /\ hist = <<>>

Off == [pc |-> "off"]

(***************************************************************************)
(* logger.go: the record a log call encodes                                *)
(***************************************************************************)
\* Lines 125-141 of Logger.log, on the bytes b already holds: the preamble,
\* the inherited context, the per-call fields, the closing brace and newline.
logEncode(b, level, now, msg, context, fields) ==
    LET b1 == b \o <<123, 34, 108, 101, 118, 101, 108, 34, 58, 34>>  \* {"level":"
        b2 == b1 \o LevelString(level)
        b3 == b2 \o <<34, 44, 34, 116, 115, 34, 58>>                 \* ","ts":
        b4 == appendTime(b3, now)
        b5 == b4 \o <<44, 34, 109, 115, 103, 34, 58>>                \* ,"msg":
        b6 == appendJSONString(b5, msg)
        b7 == IF Len(context) > 0 THEN b6 \o context ELSE b6
        b8 == appendFields(b7, fields)
    IN  b8 \o <<125, 10>>

\* The statements of Logger.log, in order.
MutLogPutBeforeWrite == <<"get", "encode", "reset", "put", "write">>

MutLogNoReset == <<"get", "encode", "write", "put">>

logBody == <<"get", "encode", "write", "reset", "put">>

\* Debug, Info, Warn, Error: the level test, then log.
leveledBody == <<"check">> \o logBody

\* Fatal: log, then os.Exit(1).
MutFatalGated == <<"check">> \o logBody \o <<"exit">>

fatalBody == logBody \o <<"exit">>

\* The statements of Logger.With after the test for no fields.
withBody == <<"get", "encode", "copy", "reset", "put", "child">>

\* `_, _ = l.output.Write(buf.B)`: what is left to do after the Write, given
\* whether it failed.
MutReturnOnWriteError(todo, failed) == IF failed THEN <<>> ELSE Tail(todo)

AfterWrite(todo, failed) == Tail(todo)

\* encoded := make([]byte, len(b)); copy(encoded, b): a new array.
MutNoCopy(h, b) == [heap |-> h, s |-> b]

CopyOut(h, b) ==
    [heap |-> Append(h, Read(h, b)),
     s    |-> [arr |-> Len(h) + 1, len |-> b.len]]

\* child := &Logger{output: l.output, level: l.level, pool: l.pool}, with the
\* context given.
MutChildOtherGate(l, context) ==
    [output |-> l.output, level |-> (l.level % Len(gates)) + 1,
     pool |-> l.pool, context |-> context]

Child(l, context) ==
    [output |-> l.output, level |-> l.level, pool |-> l.pool,
     context |-> context]

\* Lines 73-79 of With: the child's context, and the heap that holds it.
MutChildContextReversed(h, parent, encoded) ==
    [heap |-> Append(h, Read(h, encoded) \o Read(h, parent)),
     s    |-> [arr |-> Len(h) + 1, len |-> parent.len + encoded.len]]

ChildContext(h, parent, encoded) ==
    IF parent.len > 0
    THEN [heap |-> Append(h, Read(h, parent) \o Read(h, encoded)),
          s    |-> [arr |-> Len(h) + 1, len |-> parent.len + encoded.len]]
    ELSE [heap |-> h, s |-> encoded]

(***************************************************************************)
(* The callers' inputs                                                     *)
(***************************************************************************)
\* Calls made in all.
MaxCalls == 3

\* Calls in flight at once.
MaxInFlight == 2

\* The severities of Debug, Info, Warn and Error.
GatedLevels == {DebugLevel, InfoLevel, WarnLevel, ErrorLevel}

\* The message: m"
Msgs == {<<109, 34>>}

\* With("x", "a") and With(Int("y", -7)), and With().
FieldX == String(<<120>>, <<97>>)

FieldY == IntField(<<121>>, I64Neg(I64(7)))

WithFields == {<<>>, <<FieldX>>, <<FieldY>>}

\* A log call's fields: Err(e) and Int("n", 4).
ErrAndInt == <<Err(ErrorOf(<<101>>)), IntField(<<110>>, I64(4))>>


(***************************************************************************)
(* logger.go: New                                                          *)
(***************************************************************************)
\* The calls that have not returned.
InFlight == {c \in 1..Len(calls) : calls[c].todo # <<>>}

NewCall(op, l, level, msg, fields, todo) ==
    [op |-> op, l |-> l, level |-> level, msg |-> msg, fields |-> fields,
     todo |-> todo,
     buf |-> 0,                 \* buf := l.pool.Get()
     b |-> NilSlice,            \* b := buf.B
     encoded |-> NilSlice,      \* With's encoded
     context |-> NilSlice,      \* With's child.context
     ret |-> 0,                 \* With's result
     \* history
     thr |-> FatalLevel,        \* the threshold the level test loaded
     gate |-> FatalLevel,       \* the hierarchy's last SetLevel at that time
     via |-> 0,                 \* the logger that SetLevel was called on
     during |-> InFlight,       \* the calls in flight when this one was made
     now |-> 0,                 \* the time.Now() it read
     checked |-> FALSE,         \* the level test was made
     ev |-> <<>>,               \* what the call did to buffers and the sink
     failed |-> FALSE,          \* its Write failed
     rec |-> <<>>]              \* the record it encoded

\* The state after New(Config{Output: the sink, Level: level}).
InitNew(level) ==
    /\ esc = Off /\ itoa = Off /\ NoRuns
    /\ heap = <<>> /\ bufs = <<>> /\ calls = <<>> /\ sink = <<>>
    /\ clock = 0 /\ exited = FALSE
    /\ pools = << [free |-> {}] >>
    /\ gates = <<level>>
    /\ hist = [root |-> <<1>>, fields |-> << <<>> >>, lastSet |-> <<level>>,
               via |-> <<0>>]
    /\ loggers = << [output |-> 1, level |-> 1, pool |-> 1,
                     context |-> NilSlice] >>

(***************************************************************************)
(* logger.go: the calls                                                    *)
(***************************************************************************)
CanCall ==
    /\ ~exited
    /\ Len(calls) < MaxCalls
    /\ Cardinality(InFlight) < MaxInFlight

\* The call c is at the statement named.
At(c, stmt) ==
    /\ ~exited
    /\ c \in InFlight
    /\ Head(calls[c].todo) = stmt

Did(c, what) == [calls[c] EXCEPT !.ev = Append(@, what), !.todo = Tail(@)]

\* New(cfg): another root, with its own level gate and pool.
New(level) ==
    /\ CanCall
    /\ gates' = Append(gates, level)
    /\ pools' = Append(pools, [free |-> {}])
    /\ loggers' = Append(loggers, [output |-> 1, level |-> Len(gates) + 1,
                                   pool |-> Len(pools) + 1,
                                   context |-> NilSlice])
    /\ hist' = [root    |-> Append(hist.root, Len(loggers) + 1),
                fields  |-> Append(hist.fields, <<>>),
                lastSet |-> Append(hist.lastSet, level),
                via     |-> Append(hist.via, 0)]
    /\ calls' = Append(calls, [NewCall("new", 0, level, <<>>, <<>>, <<>>)
                                  EXCEPT !.ret = Len(loggers) + 1])
    /\ UNCHANGED <<heap, bufs, sink, clock, exited, esc, itoa, moreVars>>

\* l.Debug, l.Info, l.Warn or l.Error is called.
CallLeveled(l, level, msg, fields) ==
    /\ CanCall
    /\ calls' = Append(calls, NewCall("leveled", l, level, msg, fields,
                                      leveledBody))
    /\ UNCHANGED <<heap, gates, pools, bufs, loggers, sink, clock, exited,
                   hist, esc, itoa, moreVars>>

\* l.Fatal is called.
CallFatal(l, msg, fields) ==
    /\ CanCall
    /\ calls' = Append(calls, NewCall("fatal", l, FatalLevel, msg, fields,
                                      fatalBody))
    /\ UNCHANGED <<heap, gates, pools, bufs, loggers, sink, clock, exited,
                   hist, esc, itoa, moreVars>>

\* l.With is called; with no fields it returns l at once.
CallWith(l, fields) ==
    /\ CanCall
    /\ IF Len(fields) = 0
       THEN calls' = Append(calls, [NewCall("with", l, FatalLevel, <<>>,
                                            fields, <<>>) EXCEPT !.ret = l])
       ELSE calls' = Append(calls, NewCall("with", l, FatalLevel, <<>>,
                                           fields, withBody))
    /\ UNCHANGED <<heap, gates, pools, bufs, loggers, sink, clock, exited,
                   hist, esc, itoa, moreVars>>

\* l.SetLevel(level): one atomic store to the gate l points to.
SetLevel(l, level) ==
    /\ CanCall
    /\ gates' = [gates EXCEPT ![loggers[l].level] = level]
    /\ hist' = [hist EXCEPT
                    !.lastSet = [m \in 1..Len(loggers) |->
                                    IF hist.root[m] = hist.root[l] THEN level
                                    ELSE hist.lastSet[m]],
                    !.via = [m \in 1..Len(loggers) |->
                                    IF hist.root[m] = hist.root[l] THEN l
                                    ELSE hist.via[m]]]
    /\ calls' = Append(calls, NewCall("setlevel", l, level, <<>>, <<>>, <<>>))
    /\ UNCHANGED <<heap, pools, bufs, loggers, sink, clock, exited, esc, itoa, moreVars>>

\* if !l.level.Enabled(level) { return }
LevelCheck(c) ==
    /\ At(c, "check")
    /\ LET k == calls[c]
           v == gates[loggers[k.l].level]
       IN  calls' = [calls EXCEPT ![c] =
                [k EXCEPT !.todo = IF Enabled(k.level, v) THEN Tail(k.todo)
                                   ELSE <<>>,
                          !.thr = v,
                          !.gate = hist.lastSet[k.l],
                          !.via = hist.via[k.l],
                          !.checked = TRUE]]
    /\ UNCHANGED <<heap, gates, pools, bufs, loggers, sink, clock, exited,
                   hist, esc, itoa, moreVars>>

\* buf := l.pool.Get(); b := buf.B.  The pool hands out one of its free
\* buffers, or a new empty one when it has none.
PoolGet(c) ==
    /\ At(c, "get")
    /\ LET p == loggers[calls[c].l].pool
       IN  \/ \E i \in pools[p].free :
                /\ pools' = [pools EXCEPT ![p].free = @ \ {i}]
                /\ calls' = [calls EXCEPT ![c] =
                        [Did(c, "get") EXCEPT !.buf = i, !.b = bufs[i].B]]
                /\ UNCHANGED <<heap, bufs>>
           \/ /\ pools[p].free = {}
              /\ heap' = Append(heap, <<>>)
              /\ bufs' = Append(bufs, [B |-> [arr |-> Len(heap) + 1, len |-> 0]])
              /\ calls' = [calls EXCEPT ![c] =
                        [Did(c, "get") EXCEPT
                            !.buf = Len(bufs) + 1,
                            !.b = [arr |-> Len(heap) + 1, len |-> 0]]]
              /\ UNCHANGED pools
    /\ UNCHANGED <<gates, loggers, sink, clock, exited, hist, esc, itoa, moreVars>>

\* Lines 125-141 of log: the record is appended to b.
LogEncode(c) ==
    /\ At(c, "encode")
    /\ calls[c].op \in {"leveled", "fatal"}
    /\ LET k   == calls[c]
           out == logEncode(Read(heap, k.b), k.level, clock, k.msg,
                            Read(heap, loggers[k.l].context), k.fields)
       IN  /\ heap' = Store(heap, k.b.arr, out)
           /\ calls' = [calls EXCEPT ![c] =
                    [k EXCEPT !.b.len = Len(out), !.rec = out, !.now = clock,
                              !.todo = Tail(k.todo)]]
    /\ clock' = clock + 1
    /\ UNCHANGED <<gates, pools, bufs, loggers, sink, exited, hist, esc, itoa, moreVars>>

\* buf.B = b; _, _ = l.output.Write(buf.B): the sink takes the bytes, or
\* fails and takes none.
LogWrite(c) ==
    /\ At(c, "write")
    /\ LET k == calls[c]
       IN  /\ bufs' = [bufs EXCEPT ![k.buf].B = k.b]
           /\ \E failed \in BOOLEAN :
                /\ sink' = IF failed THEN sink
                           ELSE Append(sink, [by |-> c,
                                              bytes |-> Read(heap, k.b)])
                /\ calls' = [calls EXCEPT ![c] =
                        [k EXCEPT !.ev = Append(k.ev, "write"),
                                  !.failed = failed,
                                  !.todo = AfterWrite(k.todo, failed)]]
    /\ UNCHANGED <<heap, gates, pools, loggers, clock, exited, hist, esc, itoa, moreVars>>

\* buf.Reset()
BufReset(c) ==
    /\ At(c, "reset")
    /\ bufs' = [bufs EXCEPT ![calls[c].buf].B.len = 0]
    /\ calls' = [calls EXCEPT ![c] = Did(c, "reset")]
    /\ UNCHANGED <<heap, gates, pools, loggers, sink, clock, exited, hist,
                   esc, itoa, moreVars>>

\* l.pool.Put(buf)
PoolPut(c) ==
    /\ At(c, "put")
    /\ LET k == calls[c]
       IN  /\ pools' = [pools EXCEPT ![loggers[k.l].pool].free = @ \cup {k.buf}]
           /\ calls' = [calls EXCEPT ![c] =
                    Did(c, IF bufs[k.buf].B.len = 0 THEN "put"
                           ELSE "put, not empty")]
    /\ UNCHANGED <<heap, gates, bufs, loggers, sink, clock, exited, hist,
                   esc, itoa, moreVars>>

\* os.Exit(1): the process is gone, and Fatal has not returned.
FatalExit(c) ==
    /\ At(c, "exit")
    /\ exited' = TRUE
    /\ UNCHANGED <<heap, gates, pools, bufs, loggers, calls, sink, clock,
                   hist, esc, itoa, moreVars>>

\* Lines 57-60 of With: the fields are appended to b, each after a comma.
WithEncode(c) ==
    /\ At(c, "encode")
    /\ calls[c].op = "with"
    /\ LET k   == calls[c]
           out == appendFields(Read(heap, k.b), k.fields)
       IN  /\ heap' = Store(heap, k.b.arr, out)
           /\ calls' = [calls EXCEPT ![c] =
                    [k EXCEPT !.b.len = Len(out), !.todo = Tail(k.todo)]]
    /\ UNCHANGED <<gates, pools, bufs, loggers, sink, clock, exited, hist,
                   esc, itoa, moreVars>>

\* Lines 61-63 of With: encoded is a copy of b, and buf.B = b.
WithCopy(c) ==
    /\ At(c, "copy")
    /\ LET k == calls[c]
           r == CopyOut(heap, k.b)
       IN  /\ heap' = r.heap
           /\ bufs' = [bufs EXCEPT ![k.buf].B = k.b]
           /\ calls' = [calls EXCEPT ![c] =
                    [k EXCEPT !.encoded = r.s, !.todo = Tail(k.todo)]]
    /\ UNCHANGED <<gates, pools, loggers, sink, clock, exited, hist, esc, itoa, moreVars>>

\* Lines 67-81 of With: the child is built and returned.
WithChild(c) ==
    /\ At(c, "child")
    /\ LET k == calls[c]
           l == loggers[k.l]
           r == ChildContext(heap, l.context, k.encoded)
       IN  /\ heap' = r.heap
           /\ loggers' = Append(loggers, Child(l, r.s))
           /\ hist' = [root    |-> Append(hist.root, hist.root[k.l]),
                       fields  |-> Append(hist.fields,
                                          hist.fields[k.l] \o k.fields),
                       lastSet |-> Append(hist.lastSet, hist.lastSet[k.l]),
                       via     |-> Append(hist.via, hist.via[k.l])]
           /\ calls' = [calls EXCEPT ![c] =
                    [k EXCEPT !.ret = Len(loggers) + 1, !.context = r.s,
                              !.todo = Tail(k.todo)]]
    /\ UNCHANGED <<gates, pools, bufs, sink, clock, exited, esc, itoa, moreVars>>

\* One statement of one call in flight.
Step ==
    \/ \E c \in 1..Len(calls) : LevelCheck(c)
    \/ \E c \in 1..Len(calls) : PoolGet(c)
    \/ \E c \in 1..Len(calls) : LogEncode(c)
    \/ \E c \in 1..Len(calls) : LogWrite(c)
    \/ \E c \in 1..Len(calls) : BufReset(c)
    \/ \E c \in 1..Len(calls) : PoolPut(c)
    \/ \E c \in 1..Len(calls) : WithEncode(c)
    \/ \E c \in 1..Len(calls) : WithCopy(c)
    \/ \E c \in 1..Len(calls) : WithChild(c)

\* Callers that log and derive loggers while the threshold stays at Info:
\* Debug calls (suppressed), Info and Error calls, With(x), With(y), With().
Init == InitNew(InfoLevel) /\ build = "indefinite"

LogCalls ==
    { [level |-> DebugLevel, fields |-> ErrAndInt],
      [level |-> InfoLevel,  fields |-> <<>>],
      [level |-> ErrorLevel, fields |-> ErrAndInt] }

Next ==
    \/ Step
    \/ \E l \in 1..Len(loggers), msg \in Msgs, a \in LogCalls :
            CallLeveled(l, a.level, msg, a.fields)
    \/ \E l \in 1..Len(loggers), fields \in WithFields : CallWith(l, fields)

Spec == Init /\ [][Next]_vars

\* Callers that retune the threshold (to Info, or above every severity),
\* build another root, derive loggers and call every severity, Fatal too.
InitGate == InitNew(ErrorLevel) /\ build = "indefinite"

NextGate ==
    \/ Step
    \/ \E c \in 1..Len(calls) : FatalExit(c)
    \/ New(InfoLevel)
    \/ \E l \in 1..Len(loggers), level \in {InfoLevel, FatalLevel + 1} :
            SetLevel(l, level)
    \/ \E l \in 1..Len(loggers), level \in GatedLevels, msg \in Msgs :
            CallLeveled(l, level, msg, ErrAndInt)
    \/ \E l \in 1..Len(loggers), msg \in Msgs : CallFatal(l, msg, ErrAndInt)
    \/ \E l \in 1..Len(loggers) : CallWith(l, <<FieldX>>)

SpecGate == InitGate /\ [][NextGate]_vars

(***************************************************************************)
(* Callers that pass hostile text: messages, keys and values that hold     *)
(* newlines, quotes, backslashes, control bytes, malformed UTF-8 and text  *)
(* shaped like a record's own syntax, and numbers of every kind.           *)
(***************************************************************************)
\* Calls made in all by these callers.
LineCalls == 2

LineMsgs ==
    { <<34, 44, 34, 120, 34, 58, 34, 10>>,      \* ","x":" and a newline
      <<92>>,                                   \* one backslash
      <<13, 9, 1, 127>>,                        \* CR, TAB, 0x01, DEL
      <<195, 34, 226, 130, 172>> }              \* a truncated encoding, ", a euro sign

KeyPlain == <<107>>                             \* k

KeyForged == <<34, 58, 49, 44, 34>>             \* ":1,"

KeyNewline == <<10, 125, 10, 123>>              \* newline } newline {

LineString == String(KeyForged, <<34, 125, 10, 123, 34, 97, 34, 58, 34>>)

LineErr == Err(ErrorOf(<<10, 34, 92>>))

LineBytes == Bytes(KeyNewline, <<92, 34, 0, 128>>)

LineFloatBig == Float64(KeyPlain, <<35904, 30901, 44829, 17429>>)       \* 1e20

LineFloatNaN == Float64(KeyNewline, <<1, 0, 0, 32760>>)                 \* NaN

LineFloatFrac == Float64(KeyForged, <<27434, 10560, 65535, 16367>>)     \* 0.9999996

LineDuration == Duration(KeyPlain, <<58208, 22, 0, 0>>)                 \* 1.5ms

LineBool == Bool(KeyNewline, TRUE)

LineInt == Int64(KeyForged, I64Min)

LineFields ==
    { <<>>,
      <<LineString, LineFloatBig>>,
      <<LineErr, LineFloatNaN, LineBool>>,
      <<LineBytes, LineDuration, LineFloatFrac, LineInt>> }

LineWithFields == { <<LineString, LineInt>>, <<LineBytes, LineFloatBig>> }

InitLine == InitNew(InfoLevel) /\ build \in Builds

NextLine ==
    \/ Step
    \/ \E l \in 1..Len(loggers), msg \in LineMsgs, fields \in LineFields :
            /\ Len(calls) < LineCalls
            /\ CallLeveled(l, WarnLevel, msg, fields)
    \/ \E l \in 1..Len(loggers), fields \in LineWithFields :
            /\ Len(calls) < LineCalls
            /\ CallWith(l, fields)

SpecLine == InitLine /\ [][NextLine]_vars

(***************************************************************************)
(* appendJSONString, step by step (one step per iteration of the outer     *)
(* loop of appendEscapedString)                                            *)
(***************************************************************************)
\* The longest input, in pieces.
MaxPieces == 3

\* What inputs are made of: safe ASCII, the bytes with a short escape, other
\* control bytes, DEL, encodings of 2, 3 and 4 bytes (U+FFFD among them), and
\* malformed bytes: a stray continuation byte, a truncated encoding, an
\* encoded surrogate.
Pieces ==
    { <<65>>, <<34>>, <<92>>, <<10>>, <<13>>, <<9>>, <<1>>, <<31>>, <<127>>,
      <<195, 169>>, <<226, 130, 172>>, <<239, 191, 189>>,
      <<240, 159, 152, 128>>,
      <<128>>, <<195>>, <<237, 160, 128>> }

RECURSIVE Concats(_)
Concats(n) ==
    IF n = 0 THEN {<<>>}
    ELSE {<<>>} \cup {p \o r : p \in Pieces, r \in Concats(n - 1)}

InitEsc ==
    /\ LoggerOff
    /\ itoa = Off /\ MoreOff
    /\ esc \in {[s |-> s, i |-> 0, dst |-> <<34>>, pc |-> "loop"] :
                    s \in Concats(MaxPieces)}

\* for i < len(s) { ... }
EscLoop ==
    /\ esc.pc = "loop"
    /\ esc.i < Len(esc.s)
    /\ LET r == EscapeIter(esc.dst, esc.s, esc.i)
       IN  esc' = [esc EXCEPT !.dst = r.dst, !.i = r.i]
    /\ UNCHANGED <<loggerVars, itoa, moreVars>>

\* return dst, and appendJSONString's closing quote.
EscReturn ==
    /\ esc.pc = "loop"
    /\ esc.i >= Len(esc.s)
    /\ esc' = [esc EXCEPT !.dst = esc.dst \o <<34>>, !.pc = "done"]
    /\ UNCHANGED <<loggerVars, itoa, moreVars>>

NextEsc == EscLoop \/ EscReturn

SpecEsc == InitEsc /\ [][NextEsc]_vars

\* The function, once called, runs on: every step it can take it does take.
SpecEscFair == SpecEsc /\ WF_vars(NextEsc)

(***************************************************************************)
(* appendInt64, step by step                                               *)
(***************************************************************************)
\* 2^k as an int64, 0 <= k <= 63.
Bit(k) == [j \in 1..4 |-> IF j = (k \div 16) + 1 THEN 2 ^ (k % 16) ELSE 0]

\* v - 1 modulo 2^64.
I64Dec(v) == I64Neg(I64Inc(I64Neg(v)))

RECURSIVE Pow10(_)
Pow10(k) == IF k = 0 THEN I64(1) ELSE I64Mul10Add(Pow10(k - 1), 0)

\* The values appendInt64 is run on: zero, the powers of two and of ten, their
\* predecessors, the negations of all of these, and the two extremes.
IntInputs ==
    LET pos == {Bit(k) : k \in 0..62} \cup {Pow10(k) : k \in 0..18}
        all == pos \cup {I64Dec(v) : v \in pos}
    IN  all \cup {I64Neg(v) : v \in all}
            \cup {I64Zero, I64Min, I64Max, I64Inc(I64Min)}

\* What the destination holds before the call.
Prefixes == {<<>>, <<120, 61>>}

InitInt ==
    /\ LoggerOff
    /\ esc = Off /\ MoreOff
    /\ itoa \in {[v0 |-> v, dst0 |-> d, v |-> v, dst |-> d, buf |-> ZeroBuf,
                  i |-> IntBufLen, pc |-> "entry"] :
                    v \in IntInputs, d \in Prefixes}

\* if v == 0 { return append(dst, '0') }
IntZero ==
    /\ itoa.pc = "entry"
    /\ itoa.v = I64Zero
    /\ itoa' = [itoa EXCEPT !.dst = itoa.dst \o <<48>>, !.pc = "done"]
    /\ UNCHANGED <<loggerVars, esc, moreVars>>

\* if v < 0 { dst = append(dst, '-'); if v == min { return ... }; v = -v }
IntNegative ==
    /\ itoa.pc = "entry"
    /\ I64IsNeg(itoa.v)
    /\ IF IsMinInt64(itoa.v)
       THEN itoa' = [itoa EXCEPT !.dst = itoa.dst \o <<45>> \o MinMagnitude,
                                 !.pc = "done"]
       ELSE itoa' = [itoa EXCEPT !.dst = itoa.dst \o <<45>>,
                                 !.v = I64Neg(itoa.v), !.pc = "loop"]
    /\ UNCHANGED <<loggerVars, esc, moreVars>>

IntPositive ==
    /\ itoa.pc = "entry"
    /\ I64IsPos(itoa.v)
    /\ itoa' = [itoa EXCEPT !.pc = "loop"]
    /\ UNCHANGED <<loggerVars, esc, moreVars>>

\* for v > 0 { i--; buf[i] = byte(v%10) + '0'; v /= 10 }
IntDigit ==
    /\ itoa.pc = "loop"
    /\ I64IsPos(itoa.v)
    /\ LET r == IntLoopIter(itoa.v, itoa.buf, itoa.i)
       IN  itoa' = [itoa EXCEPT !.v = r.v, !.buf = r.buf, !.i = r.i]
    /\ UNCHANGED <<loggerVars, esc, moreVars>>

\* return append(dst, buf[i:]...)
IntReturn ==
    /\ itoa.pc = "loop"
    /\ ~I64IsPos(itoa.v)
    /\ itoa' = [itoa EXCEPT
                    !.dst = itoa.dst \o SubSeq(itoa.buf, itoa.i + 1, IntBufLen),
                    !.pc = "done"]
    /\ UNCHANGED <<loggerVars, esc, moreVars>>

NextInt == IntZero \/ IntNegative \/ IntPositive \/ IntDigit \/ IntReturn

SpecInt == InitInt /\ [][NextInt]_vars

(***************************************************************************)
(* appendFloat64 and appendDuration, step by step                          *)
(***************************************************************************)
\* The float64 values given, by their bits.
FloatBits ==
    {
      <<    0,     0,     0, 32760>>,   \* NaN
      <<    0,     0,     0, 32752>>,   \* +Inf
      <<    0,     0,     0, 65520>>,   \* -Inf
      <<    0,     0,     0,     0>>,   \* 0
      <<    0,     0,     0, 32768>>,   \* -0
      <<    0,     0,     0, 16376>>,   \* 1.5
      <<    0,     0,     0, 16384>>,   \* 2
      <<    0,     0,     0, 49152>>,   \* -2
      <<    0,     0,     0, 49144>>,   \* -1.5
      <<60813, 41141, 50935, 16048>>,   \* 0.000001
      <<32506, 48234, 37748, 16216>>,   \* 0.0015
      <<    0,     0,     0, 16352>>,   \* 0.5
      <<39322, 39321, 39321, 16313>>,   \* 0.1
      <<13107, 13107, 13107, 16339>>,   \* 0.3
      <<30409, 40894,  9228, 16638>>,   \* 123456.789
      <<27434, 10560, 65535, 16367>>,   \* 0.9999996
      <<10288, 44920, 65535, 16383>>,   \* 1.9999997
      <<27434, 10560, 65535, 49135>>,   \* -0.9999996
      <<41151, 48608, 65534, 16367>>,   \* 0.9999994
      <<44872, 39612, 55282, 16026>>,   \* 0.0000004
      <<60813, 41141, 50935, 16032>>,   \* 0.0000005
      <<58452, 28944, 10867, 16057>>,   \* 0.0000015
      <<    0,     0,     0, 16388>>,   \* 2.5
      <<    0,     0,     0, 16336>>,   \* 0.25
      <<    0,     0,     0, 16320>>,   \* 0.125
      << 7135,    67, 18432, 16531>>,   \* 1234.000001
      <<65528,  9779, 27637, 17164>>,   \* 999999999999999
      <<65535,  9779, 27637, 17164>>,   \* 999999999999999.9
      <<    0,  9780, 27637, 17164>>,   \* 1e15
      <<    4,  9780, 27637, 17164>>,   \* 1000000000000000.5
      <<65535, 65535, 65535, 17199>>,   \* 4503599627370495.5
      <<    0,     0,     0, 17216>>,   \* 9007199254740992
      <<    0,     0,     0, 17376>>,   \* 2^63
      <<    1,     0,     0, 17376>>,   \* 2^63+2048
      <<    0,     0,     0, 50144>>,   \* -2^63
      <<15616, 24721, 22756, 17377>>,   \* 1e19
      <<35904, 30901, 44829, 17429>>,   \* 1e20
      <<35904, 30901, 44829, 50197>>,   \* -1e20
      <<    1,     0,     0,     0>>,   \* 5e-324
      <<65535, 65535, 65535, 32751>>,   \* 1.7976931348623157e308
      <<    0,     0,     0, 16453>>,   \* 42
      <<44872, 39612, 55282, 15994>>,   \* 1e-7
      <<16920, 64462, 65535, 16472>>,   \* 99.999999
      <<41014, 65428, 65535, 16472>>    \* 99.9999999
    }

\* The durations given, in nanoseconds.
Durations ==
    {
      <<58208,    22,     0,     0>>,   \* 1500 microseconds
      <<    1,     0,     0,     0>>,   \* 1ns
      <<51712, 15258,     0,     0>>,   \* 1s
      <<12032, 22888,     0,     0>>,   \* 1.5s
      << 7328, 65513, 65535, 65535>>,   \* -1500 microseconds
      <<51312, 15258,     0,     0>>,   \* 999999600ns
      <<40960, 12472,   838,     0>>,   \* 1h
      <<    0,     0,     0,     0>>,   \* 0
      <<65535, 65535, 65535, 32767>>,   \* 2562047h47m16.854775807s
      <<    0,     0,     0, 32768>>,   \* -2562047h47m16.854775808s
      <<37588, 30517,     0,     0>>,   \* 1.9999997s
      <<52501,  1883,     0,     0>>    \* 123456789ns
    }

FloatRun(kind, in) ==
    [kind |-> kind, in |-> in, v0 |-> NaN, v |-> NaN, neg |-> FALSE,
     dst |-> <<>>, fracPart |-> I64Zero, pc |-> "in"]

InitFloat ==
    /\ LoggerOff
    /\ esc = Off /\ itoa = Off /\ mk = Off
    /\ build \in Builds
    /\ ftoa \in {FloatRun("float", b) : b \in FloatBits}
                    \cup {FloatRun("duration", d) : d \in Durations}

\* appendField, line 98: math.Float64frombits(uint64(f.Ival)).
FloatFrombits ==
    /\ ftoa.pc = "in" /\ ftoa.kind = "float"
    /\ LET v == Float64frombits(ftoa.in)
       IN  ftoa' = [ftoa EXCEPT !.v0 = v, !.v = v, !.pc = "special"]
    /\ UNCHANGED <<loggerVars, esc, itoa, mk, build>>

\* appendDuration: d.Seconds().
DurationSeconds ==
    /\ ftoa.pc = "in" /\ ftoa.kind = "duration"
    /\ LET v == Seconds(ftoa.in)
       IN  ftoa' = [ftoa EXCEPT !.v0 = v, !.v = v, !.pc = "special"]
    /\ UNCHANGED <<loggerVars, esc, itoa, mk, build>>

\* Lines 215-226: NaN, the infinities and zero.
FloatSpecial ==
    /\ ftoa.pc = "special"
    /\ ftoa.v.cls # "fin" \/ ftoa.v.m = <<>>
    /\ ftoa' = [ftoa EXCEPT !.dst = appendFloat64(ftoa.dst, ftoa.v),
                            !.pc = "done"]
    /\ UNCHANGED <<loggerVars, esc, itoa, mk, build>>

\* Lines 228-232: neg, and v = -v.
FloatSign ==
    /\ ftoa.pc = "special"
    /\ ftoa.v.cls = "fin" /\ ftoa.v.m # <<>>
    /\ ftoa' = [ftoa EXCEPT !.neg = ftoa.v.neg, !.v.neg = FALSE, !.pc = "whole"]
    /\ UNCHANGED <<loggerVars, esc, itoa, mk, build>>

\* Lines 234-239: the whole number below 1e15.
FloatWhole ==
    /\ ftoa.pc = "whole"
    /\ IsWhole(ftoa.v) /\ Below1e15(ftoa.v)
    /\ LET d1 == IF ftoa.neg THEN ftoa.dst \o <<45>> ELSE ftoa.dst
       IN  ftoa' = [ftoa EXCEPT !.dst = appendInt64(d1, ToInt64(ftoa.v)),
                                !.pc = "done"]
    /\ UNCHANGED <<loggerVars, esc, itoa, mk, build>>

\* Lines 241-252: the sign, intPart and fracPart, the integer part, the point.
FloatSlow ==
    /\ ftoa.pc = "whole"
    /\ ~(IsWhole(ftoa.v) /\ Below1e15(ftoa.v))
    /\ LET d1 == IF ftoa.neg THEN ftoa.dst \o <<45>> ELSE ftoa.dst
           p  == FloatParts(ftoa.v)
       IN  ftoa' = [ftoa EXCEPT !.dst = appendInt64(d1, p.intPart) \o <<46>>,
                                !.fracPart = p.fracPart,
                                !.pc = "digits"]
    /\ UNCHANGED <<loggerVars, esc, itoa, mk, build>>

\* Lines 254-264: six digits, trimmed of trailing zeros down to one.
FloatDigits ==
    /\ ftoa.pc = "digits"
    /\ LET fbuf == FracLoop(ftoa.fracPart, [k \in 1..6 |-> 0], 5)
       IN  ftoa' = [ftoa EXCEPT !.dst = ftoa.dst \o SubSeq(fbuf, 1, TrimEnd(fbuf, 6)),
                                !.pc = "done"]
    /\ UNCHANGED <<loggerVars, esc, itoa, mk, build>>

NextFloat ==
    \/ FloatFrombits \/ DurationSeconds \/ FloatSpecial \/ FloatSign
    \/ FloatWhole \/ FloatSlow \/ FloatDigits

SpecFloat == InitFloat /\ [][NextFloat]_vars

(***************************************************************************)
(* Err, and the field it makes rendered by appendField                     *)
(***************************************************************************)
\* The longest error text, in pieces.
MaxErrPieces == 2

\* The error values: nil, and errors whose Error() text is any input of up
\* to that many pieces (the empty text among them).
ErrorValues == {NilError} \cup {ErrorOf(s) : s \in Concats(MaxErrPieces)}

NoField == Field(<<>>, StringType, I64Zero, <<>>, <<>>)

InitField ==
    /\ LoggerOff
    /\ esc = Off /\ itoa = Off /\ ftoa = Off
    /\ build \in Builds
    /\ mk \in {[val |-> e, f |-> NoField, dst |-> <<>>, pc |-> "in"] :
                    e \in ErrorValues}

\* f := Err(val)
ErrCall ==
    /\ mk.pc = "in"
    /\ mk' = [mk EXCEPT !.f = Err(mk.val), !.pc = "made"]
    /\ UNCHANGED <<loggerVars, esc, itoa, ftoa, build>>

\* appendField(dst, f), as the record loop calls it.
ErrAppend ==
    /\ mk.pc = "made"
    /\ mk' = [mk EXCEPT !.dst = appendField(mk.dst, mk.f), !.pc = "done"]
    /\ UNCHANGED <<loggerVars, esc, itoa, ftoa, build>>

NextField == ErrCall \/ ErrAppend

SpecField == InitField /\ [][NextField]_vars

(***************************************************************************)
(* A reference JSON string parser (RFC 8259, section 7), and UTF-8         *)
(* validity.  These state the claims; they model no code.                  *)
(***************************************************************************)
HexVal(c) ==
    IF c >= 48 /\ c <= 57 THEN c - 48
    ELSE IF c >= 97 /\ c <= 102 THEN c - 87
    ELSE IF c >= 65 /\ c <= 70 THEN c - 55
    ELSE -1

\* The UTF-8 encoding of a code point of the basic plane.
UTF8Encode(cp) ==
    IF cp < 128 THEN <<cp>>
    ELSE IF cp < 2048 THEN <<192 + (cp \div 64), 128 + (cp % 64)>>
    ELSE <<224 + (cp \div 4096), 128 + ((cp \div 64) % 64), 128 + (cp % 64)>>

\* The length of the well-formed UTF-8 encoding that starts t, or 0.
RuneLen(t) ==
    LET b0 == t[1]
        n  == Len(t)
        tail(k) == k <= n /\ t[k] >= 128 /\ t[k] <= 191
    IN  IF b0 < 128 THEN 1
        ELSE IF b0 >= 194 /\ b0 <= 223 /\ tail(2) THEN 2
        ELSE IF b0 >= 224 /\ b0 <= 239 /\ tail(2) /\ tail(3)
                /\ (b0 = 224 => t[2] >= 160) /\ (b0 = 237 => t[2] <= 159) THEN 3
        ELSE IF b0 >= 240 /\ b0 <= 244 /\ tail(2) /\ tail(3) /\ tail(4)
                /\ (b0 = 240 => t[2] >= 144) /\ (b0 = 244 => t[2] <= 143) THEN 4
        ELSE 0

RECURSIVE ValidFrom(_, _)
ValidFrom(s, k) ==
    IF k > Len(s) THEN TRUE
    ELSE LET n == RuneLen(SubSeq(s, k, Len(s)))
         IN  n > 0 /\ ValidFrom(s, k + n)

ValidUTF8(s) == ValidFrom(s, 1)

ParseFail == [ok |-> FALSE, val |-> <<>>]

\* The characters of a JSON string between its quotes, decoded from index k.
RECURSIVE JSONChars(_, _, _)
JSONChars(t, k, out) ==
    IF k > Len(t) THEN [ok |-> TRUE, val |-> out]
    ELSE LET b == t[k]
         IN  IF b = 34 \/ b < 32 THEN ParseFail
             ELSE IF b = 92
             THEN IF k + 1 > Len(t) THEN ParseFail
                  ELSE LET e == t[k + 1]
                           one(x) == JSONChars(t, k + 2, out \o <<x>>)
                       IN  CASE e = 34  -> one(34)
                             [] e = 92  -> one(92)
                             [] e = 47  -> one(47)
                             [] e = 98  -> one(8)
                             [] e = 102 -> one(12)
                             [] e = 110 -> one(10)
                             [] e = 114 -> one(13)
                             [] e = 116 -> one(9)
                             [] e = 117 ->
                                IF k + 5 > Len(t) THEN ParseFail
                                ELSE LET h(j) == HexVal(t[k + 1 + j])
                                         cp == ((h(1) * 16 + h(2)) * 16 + h(3)) * 16
                                                   + h(4)
                                     IN  IF \E j \in 1..4 : h(j) < 0 THEN ParseFail
                                         ELSE IF cp >= 55296 /\ cp <= 57343
                                         THEN ParseFail
                                         ELSE JSONChars(t, k + 6,
                                                        out \o UTF8Encode(cp))
                             [] OTHER -> ParseFail
             ELSE LET n == RuneLen(SubSeq(t, k, Len(t)))
                  IN  IF n = 0 THEN ParseFail
                      ELSE JSONChars(t, k + n, out \o SubSeq(t, k, k + n - 1))

\* The string a quoted JSON string denotes.
JSONUnquote(q) ==
    IF Len(q) < 2 \/ q[1] # 34 \/ q[Len(q)] # 34 THEN ParseFail
    ELSE JSONChars(SubSeq(q, 2, Len(q) - 1), 1, <<>>)

\* Some byte of s satisfies P.
Has(s, P(_)) == \E k \in 1..Len(s) : P(s[k])

(***************************************************************************)
(* Claims about the encoder                                                *)
(***************************************************************************)
\* C9: for every input of valid UTF-8, the quoted output of the string append,
\* read back by the reference JSON string parser, is the input.
C9_EscapeRoundTrip ==
    (esc.pc = "done" /\ ValidUTF8(esc.s))
        => JSONUnquote(esc.dst) = [ok |-> TRUE, val |-> esc.s]

\* C9's case: a finished run on valid UTF-8 that holds a quote or a backslash,
\* a control byte or DEL, and a multi-byte encoding.
C9_Witness ==
    /\ esc.pc = "done"
    /\ ValidUTF8(esc.s)
    /\ Has(esc.s, LAMBDA b : b = 34 \/ b = 92)
    /\ Has(esc.s, LAMBDA b : b < 32 \/ b = 127)
    /\ Has(esc.s, LAMBDA b : b >= 128)

\* The value of a string of decimal digits, modulo 2^64.
RECURSIVE ParseDigits(_, _)
ParseDigits(ds, acc) ==
    IF ds = <<>> THEN acc
    ELSE ParseDigits(Tail(ds), I64Mul10Add(acc, Head(ds) - 48))

\* text is the canonical decimal text of the int64 v: an optional '-', then 1
\* to 19 digits with no leading zero, denoting v.
IsDecimalOf(text, v) ==
    LET neg == text # <<>> /\ text[1] = 45
        ds  == IF neg THEN Tail(text) ELSE text
        mag == ParseDigits(ds, I64Zero)
    IN  /\ neg <=> I64IsNeg(v)
        /\ Len(ds) >= 1 /\ Len(ds) <= 19
        /\ \A k \in 1..Len(ds) : ds[k] >= 48 /\ ds[k] <= 57
        /\ ds[1] = 48 => ds = <<48>>
        /\ v = (IF neg THEN I64Neg(mag) ELSE mag)

\* C10: appendInt64 leaves the destination's bytes as they were and appends
\* the canonical decimal text of v: "0" for zero, "-9223372036854775808" for
\* the minimum.
C10_IntExact ==
    itoa.pc = "done" =>
        LET n    == Len(itoa.dst0)
            text == SubSeq(itoa.dst, n + 1, Len(itoa.dst))
        IN  /\ Len(itoa.dst) > n
            /\ SubSeq(itoa.dst, 1, n) = itoa.dst0
            /\ IsDecimalOf(text, itoa.v0)
            /\ itoa.v0 = I64Zero => text = <<48>>
            /\ itoa.v0 = <<0, 0, 0, 32768>> =>
                   text = <<45, 57, 50, 50, 51, 51, 55, 50, 48, 51, 54, 56, 53,
                            52, 55, 55, 53, 56, 48, 56>>
            /\ itoa.dst = appendInt64(itoa.dst0, itoa.v0)

\* C10's case: the minimum value appended after existing bytes.
C10_Witness ==
    /\ itoa.pc = "done"
    /\ itoa.v0 = I64Min
    /\ itoa.dst0 # <<>>

(***************************************************************************)
(* A reference reader of one record: a JSON object of string keys and      *)
(* string or literal values on one line.  It states the claims; it models  *)
(* no code.                                                                *)
(***************************************************************************)
\* { } : , newline and the quote.
Structural == {123, 125, 58, 44, 10, 34}

\* The index of the quote that closes the string whose content starts at k,
\* or 0.
RECURSIVE StringEnd(_, _)
StringEnd(s, k) ==
    IF k > Len(s) THEN 0
    ELSE IF s[k] = 34 THEN k
    ELSE IF s[k] = 92 THEN StringEnd(s, k + 2)
    ELSE StringEnd(s, k + 1)

\* The last index of the run of non-structural bytes that starts at k.
RECURSIVE LitEnd(_, _)
LitEnd(s, k) ==
    IF k + 1 > Len(s) \/ s[k + 1] \in Structural THEN k ELSE LitEnd(s, k + 1)

\* The tokens of s from index k on: quoted strings, structural bytes, literals.
RECURSIVE Lex(_, _, _)
Lex(s, k, toks) ==
    IF k > Len(s) THEN toks
    ELSE IF s[k] = 34
    THEN LET e == StringEnd(s, k + 1)
         IN  IF e = 0 THEN Append(toks, [t |-> "bad", v |-> <<>>])
             ELSE Lex(s, e + 1, Append(toks, [t |-> "str", v |-> SubSeq(s, k, e)]))
    ELSE IF s[k] \in Structural
    THEN Lex(s, k + 1, Append(toks, [t |-> "p", v |-> <<s[k]>>]))
    ELSE LET e == LitEnd(s, k)
         IN  Lex(s, e + 1, Append(toks, [t |-> "lit", v |-> SubSeq(s, k, e)]))

\* true, false, null, or an integer without a leading zero.
JSONLiteral(v) ==
    \/ v \in { <<116, 114, 117, 101>>, <<102, 97, 108, 115, 101>>,
               <<110, 117, 108, 108>> }
    \/ LET ds == IF v # <<>> /\ v[1] = 45 THEN Tail(v) ELSE v
       IN  /\ ds # <<>>
           /\ \A k \in 1..Len(ds) : ds[k] >= 48 /\ ds[k] <= 57
           /\ ds[1] = 48 => ds = <<48>>

RecordFail == [ok |-> FALSE, keys |-> <<>>, vals |-> <<>>]

\* The keys (decoded) and the values (as written) of the record s, which is
\* '{', members "key":value with one comma between neighbours, '}', '\n'.
ParseRecord(s) ==
    LET toks == Lex(s, 1, <<>>)
        n    == Len(toks)
        m    == n - 3
        IsP(j, b) == toks[j].t = "p" /\ toks[j].v = <<b>>
        IsStr(j)  == toks[j].t = "str" /\ JSONUnquote(toks[j].v).ok
        IsLit(j)  == toks[j].t = "lit" /\ JSONLiteral(toks[j].v)
        shape ==
            /\ n >= 6
            /\ IsP(1, 123) /\ IsP(n - 1, 125) /\ IsP(n, 10)
            /\ m % 4 = 3
            /\ \A i \in 1..m :
                    CASE i % 4 = 1 -> IsStr(1 + i)
                      [] i % 4 = 2 -> IsP(1 + i, 58)
                      [] i % 4 = 3 -> IsStr(1 + i) \/ IsLit(1 + i)
                      [] OTHER     -> IsP(1 + i, 44)
    IN  IF shape
        THEN [ok   |-> TRUE,
              keys |-> [j \in 1..((m + 1) \div 4) |->
                            JSONUnquote(toks[4 * j - 2].v).val],
              vals |-> [j \in 1..((m + 1) \div 4) |-> toks[4 * j].v]]
        ELSE RecordFail

(***************************************************************************)
(* Vocabulary of the claims about the logger                               *)
(***************************************************************************)
Range(s) == {s[k] : k \in 1..Len(s)}

IsPrefix(a, b) == Len(a) <= Len(b) /\ SubSeq(b, 1, Len(a)) = a

\* sub occurs in s.
Contains(s, sub) ==
    \E k \in 0..(Len(s) - Len(sub)) : SubSeq(s, k + 1, k + Len(sub)) = sub

\* What a call that runs to its end does to buffers and the sink.
FullEvents(op) ==
    IF op = "with" THEN <<"get", "reset", "put">>
    ELSE <<"get", "write", "reset", "put">>

\* The call c has acquired a buffer and not released it.
Holds(c) ==
    /\ "get" \in Range(calls[c].ev)
    /\ Range(calls[c].ev) \cap {"put", "put, not empty"} = {}

\* The level test of the leveled call c was made and let it through.
Passed(c) ==
    /\ calls[c].op = "leveled"
    /\ calls[c].checked
    /\ calls[c].level >= calls[c].thr

\* The level test of the leveled call c was made and stopped it.
Stopped(c) ==
    /\ calls[c].op = "leveled"
    /\ calls[c].checked
    /\ calls[c].level < calls[c].thr

\* The sink's entries that the call c wrote.
WritesBy(c) == {j \in 1..Len(sink) : sink[j].by = c}

\* The pools buffer i is free in.
FreeIn(i) == {p \in 1..Len(pools) : i \in pools[p].free}

(***************************************************************************)
(* Claims about the logger                                                 *)
(***************************************************************************)
\* C1: a Debug, Info, Warn or Error call whose severity is below the threshold
\* it read returns at once: it acquired no buffer, encoded nothing and wrote
\* nothing; and no leveled call touches a buffer before its level test.  While
\* the only calls made are SetLevel, New and leveled calls that were stopped
\* (or are yet to be tested), no buffer exists, the sink is empty and the clock
\* was never read.
C1_DisabledCallDoesNothing ==
    /\ \A c \in 1..Len(calls) :
            (calls[c].op = "leveled" /\ (Stopped(c) \/ ~calls[c].checked)) =>
                /\ calls[c].ev = <<>>
                /\ calls[c].buf = 0
                /\ calls[c].rec = <<>>
                /\ WritesBy(c) = {}
                /\ Stopped(c) => calls[c].todo = <<>>
    /\ (\A c \in 1..Len(calls) :
            \/ calls[c].op \in {"setlevel", "new"}
            \/ calls[c].op = "leveled" /\ (Stopped(c) \/ ~calls[c].checked))
        => (bufs = <<>> /\ heap = <<>> /\ sink = <<>> /\ clock = 0)

\* C1's case: with the threshold at Error, a Debug, an Info and a Warn call
\* have all returned, and there is no buffer and nothing in the sink.
C1_Witness ==
    /\ Len(calls) = 3
    /\ \A c \in 1..Len(calls) :
            Stopped(c) /\ calls[c].thr = ErrorLevel /\ calls[c].todo = <<>>
    /\ {calls[c].level : c \in 1..Len(calls)}
            = {DebugLevel, InfoLevel, WarnLevel}
    /\ bufs = <<>> /\ sink = <<>>

\* C2: what a call does to buffers and the sink is, in order, one get, one
\* write (log calls only), one reset, one put, and it has done all of it when
\* it returns; a log call's record is in the sink once iff its write was made
\* and did not fail; every buffer is free in one pool and empty, or held by one
\* call in flight, never both.
C2_AcquireUseRelease ==
    /\ \A c \in 1..Len(calls) :
            LET k == calls[c]
            IN  /\ IsPrefix(k.ev, FullEvents(k.op))
                /\ (k.todo = <<>> /\ (Passed(c) \/ (k.op = "with" /\ k.fields # <<>>)))
                        => k.ev = FullEvents(k.op)
                /\ Cardinality(WritesBy(c))
                        = (IF "write" \in Range(k.ev) /\ ~k.failed THEN 1 ELSE 0)
                /\ Holds(c) => c \in InFlight
    /\ \A i \in 1..Len(bufs) :
            LET holders == {c \in 1..Len(calls) : Holds(c) /\ calls[c].buf = i}
            IN  /\ Cardinality(FreeIn(i)) + Cardinality(holders) = 1
                /\ FreeIn(i) # {} => bufs[i].B.len = 0

\* C2's case: a log call that wrote its record and a With call that built a
\* child have both returned, no call is in flight, and every buffer is back.
C2_Witness ==
    /\ InFlight = {}
    /\ bufs # <<>>
    /\ \E c \in 1..Len(calls) :
            Passed(c) /\ ~calls[c].failed /\ calls[c].fields # <<>>
    /\ \E c \in 1..Len(calls) : calls[c].op = "with" /\ calls[c].fields # <<>>
    /\ \A i \in 1..Len(bufs) : FreeIn(i) # {}

\* The With call that returned the logger l, or 0 for a root.
MadeBy(l) ==
    IF \E c \in 1..Len(calls) :
            calls[c].op = "with" /\ calls[c].fields # <<>> /\ calls[c].ret = l
    THEN CHOOSE c \in 1..Len(calls) :
            calls[c].op = "with" /\ calls[c].fields # <<>> /\ calls[c].ret = l
    ELSE 0

\* The field f as a record shows it: a comma, the key, a colon, the value.
Shown(f) == appendField(<<44>>, f)

\* C3: every logger's context is, at all times, exactly the fields attached on
\* its way from the root, in order (so no With, finished or in flight, changed
\* the context of the logger it was called on or of a sibling); and a record
\* written through a logger shows With's field x iff x is among that
\* logger's fields, and With's field y iff y is.
C3_ContextIndependence ==
    /\ \A l \in 1..Len(loggers) :
            Read(heap, loggers[l].context) = appendFields(<<>>, hist.fields[l])
    /\ \A j \in 1..Len(sink) : \A f \in {FieldX, FieldY} :
            Contains(sink[j].bytes, Shown(f))
                <=> f \in Range(hist.fields[calls[sink[j].by].l])

\* C3's case: B = A.With(x) and C = A.With(y) were in flight together, both
\* returned, and a record was then written through B: it shows x and not y.
C3_Witness ==
    \E j \in 1..Len(sink) :
        LET B  == calls[sink[j].by].l
            wB == MadeBy(B)
        IN  /\ wB # 0
            /\ calls[wB].fields = <<FieldX>>
            /\ \E wC \in 1..Len(calls) :
                    /\ calls[wC].op = "with"
                    /\ calls[wC].l = calls[wB].l
                    /\ calls[wC].fields = <<FieldY>>
                    /\ calls[wC].ret \notin {0, B}
                    /\ wB \in calls[wC].during \/ wC \in calls[wB].during
                    /\ sink[j].by > wB /\ sink[j].by > wC
            /\ Contains(sink[j].bytes, Shown(FieldX))
            /\ ~Contains(sink[j].bytes, Shown(FieldY))

\* C4: the gate a logger points to holds the level of the last SetLevel made
\* on any logger of its hierarchy (the root's configured level before the
\* first); so the threshold a leveled call's test reads is that level, and the
\* call goes on to log iff its severity is at least that level.
C4_SharedThreshold ==
    /\ \A l \in 1..Len(loggers) : gates[loggers[l].level] = hist.lastSet[l]
    /\ \A c \in 1..Len(calls) :
            (calls[c].op = "leveled" /\ calls[c].checked) =>
                /\ calls[c].thr = calls[c].gate
                /\ (calls[c].todo = <<>> /\ calls[c].ev = <<>>)
                        <=> calls[c].level < calls[c].gate

\* C4's case: SetLevel(Info) on one logger of a hierarchy whose root was
\* configured with Error, then a Warn call that started afterwards on another
\* logger of the hierarchy, which was let through.
C4_Witness ==
    \E c \in 1..Len(calls) : \E s \in 1..Len(calls) :
        /\ calls[s].op = "setlevel" /\ calls[s].level = InfoLevel /\ s < c
        /\ Passed(c)
        /\ calls[c].level = WarnLevel
        /\ calls[c].via = calls[s].l
        /\ calls[c].via # calls[c].l
        /\ hist.root[calls[c].via] = hist.root[calls[c].l]
        /\ hist.root[calls[c].l] = 1

\* The keys of a record: level, ts, msg.
PreambleKeys == << <<108, 101, 118, 101, 108>>, <<116, 115>>, <<109, 115, 103>> >>

KeysOf(fields) == [k \in 1..Len(fields) |-> fields[k].Key]

FatalPreamble ==
    <<123, 34, 108, 101, 118, 101, 108, 34, 58, 34, 70, 65, 84, 65, 76, 34, 44,
      34, 116, 115, 34, 58>>

\* C6: no Fatal call returns, whatever the threshold; what it does is get,
\* write, reset, put, in that order, and it is at os.Exit only after all of
\* them; the process has exited only if a Fatal call is there, having encoded
\* a FATAL record and made its one Write, which put that record in the sink
\* exactly once unless the sink refused it.
C6_FatalNotGated ==
    /\ \A c \in 1..Len(calls) :
            calls[c].op = "fatal" =>
                /\ calls[c].todo # <<>>
                /\ IsPrefix(calls[c].ev, FullEvents("fatal"))
                /\ calls[c].todo = <<"exit">> =>
                        /\ calls[c].ev = FullEvents("fatal")
                        /\ IsPrefix(FatalPreamble, calls[c].rec)
                        /\ ParseRecord(calls[c].rec).ok
                        /\ ~calls[c].failed =>
                                \E j \in 1..Len(sink) :
                                    /\ WritesBy(c) = {j}
                                    /\ sink[j].bytes = calls[c].rec
    /\ exited => \E c \in 1..Len(calls) :
                    calls[c].op = "fatal" /\ calls[c].todo = <<"exit">>

\* C6's case: the threshold was set above every severity, a Fatal call was
\* then made, its record is in the sink and the process has exited.
C6_Witness ==
    /\ exited
    /\ \E c \in 1..Len(calls) : \E s \in 1..Len(calls) :
            /\ calls[s].op = "setlevel" /\ calls[s].level = FatalLevel + 1 /\ s < c
            /\ hist.root[calls[s].l] = hist.root[calls[c].l]
            /\ calls[c].op = "fatal"
            /\ gates[loggers[calls[c].l].level] = FatalLevel + 1
            /\ WritesBy(c) # {}

\* The record the call c makes from its inputs alone, on an empty buffer.
RecordOf(c) ==
    logEncode(<<>>, calls[c].level, calls[c].now, calls[c].msg,
              appendFields(<<>>, hist.fields[calls[c].l]), calls[c].fields)

\* C7: a log call whose Write failed put nothing in the sink and goes on as
\* one whose Write succeeded: what it has done and what it has left to do are
\* together get, write, reset, put, so that when it has returned its buffer is
\* released, and empty; the logger it was made on still has its gate at the
\* level last set and its context as built; and every record a later call
\* writes is the record of that call's inputs, with nothing of the failed one.
C7_WriteFailureSwallowed ==
    \A c \in 1..Len(calls) :
        calls[c].failed =>
            LET k    == calls[c]
                rest == SelectSeq(k.todo, LAMBDA x : x \in {"reset", "put"})
            IN  /\ WritesBy(c) = {}
                /\ IsPrefix(<<"get", "write">>, k.ev)
                /\ k.ev \o rest = FullEvents(k.op)
                /\ k.todo = <<>> =>
                        /\ ~Holds(c)
                        /\ FreeIn(k.buf) # {} => bufs[k.buf].B.len = 0
                /\ gates[loggers[k.l].level] = hist.lastSet[k.l]
                /\ Read(heap, loggers[k.l].context)
                        = appendFields(<<>>, hist.fields[k.l])
                /\ \A j \in 1..Len(sink) :
                        sink[j].by > c => sink[j].bytes = RecordOf(sink[j].by)

\* C7's case: a log call's Write failed and the call returned; a later call on
\* the same logger got the same buffer and its record is in the sink.
C7_Witness ==
    \E c \in 1..Len(calls) : \E j \in 1..Len(sink) :
        /\ calls[c].failed
        /\ calls[c].todo = <<>>
        /\ sink[j].by > c
        /\ c \notin calls[sink[j].by].during
        /\ calls[sink[j].by].l = calls[c].l
        /\ calls[sink[j].by].buf = calls[c].buf

\* C8: two calls that hold buffers at the same time hold different buffers,
\* over different arrays; a buffer a call holds shows, from the moment the call
\* has encoded, exactly what that call encoded; and every entry of the sink is
\* the record encoded by the call that wrote it.
C8_BufferExclusive ==
    /\ \A c, d \in 1..Len(calls) :
            (c # d /\ Holds(c) /\ Holds(d)) =>
                /\ calls[c].buf # calls[d].buf
                /\ calls[c].b.arr # calls[d].b.arr
    /\ \A c \in 1..Len(calls) :
            (Holds(c) /\ calls[c].rec # <<>>) => Read(heap, calls[c].b) = calls[c].rec
    /\ \A j \in 1..Len(sink) : sink[j].bytes = calls[sink[j].by].rec

\* C8's case: two log calls hold buffers at once, both have encoded, their
\* records differ, and one of them has written.
C8_Witness ==
    \E c, d \in 1..Len(calls) :
        /\ c # d
        /\ Holds(c) /\ Holds(d)
        /\ calls[c].rec # <<>> /\ calls[d].rec # <<>>
        /\ calls[c].rec # calls[d].rec
        /\ WritesBy(c) # {}

(***************************************************************************)
(* The reference float format, from the value itself                       *)
(***************************************************************************)
\* The decimal digits of a natural number, most significant first.
RECURSIVE NDecimal(_)
NDecimal(a) ==
    IF a = <<>> THEN <<>>
    ELSE LET qr == NDivSmall(a, 10)
         IN  Append(NDecimal(qr.quo), 48 + qr.rem)

NText(a) == IF a = <<>> THEN <<48>> ELSE NDecimal(a)

\* trunc(|x|) as a natural number of any size.
RefTrunc(x) ==
    IF x.e >= 0 THEN NShl(x.m, x.e)
    ELSE IF -x.e >= NBitLen(x.m) THEN <<>>
    ELSE NShr(x.m, -x.e)

\* |x| - trunc(|x|), which a float64 holds exactly.
RefFrac(x) ==
    IF x.e >= 0 THEN Fin(FALSE, <<>>, 0)
    ELSE IF -x.e >= NBitLen(x.m) THEN Fin(FALSE, x.m, x.e)
    ELSE Fin(FALSE, NLow(x.m, -x.e), x.e)

\* round((|x| - trunc(|x|)) * 1e6), a number of millionths from 0 to 10^6.
RefMillionths(x) == RefTrunc(Round(FMul1e6(RefFrac(x))))

\* A number below 10^6 as six digits.
SixDigits(r) ==
    LET ds == NDecimal(r)
    IN  [k \in 1..(6 - Len(ds)) |-> 48] \o ds

\* Trailing zeros removed, one digit kept at least.
RECURSIVE RefTrim(_)
RefTrim(s) ==
    IF Len(s) > 1 /\ s[Len(s)] = 48 THEN RefTrim(SubSeq(s, 1, Len(s) - 1))
    ELSE s

RefWholeBelow1e15(x) ==
    /\ RefFrac(x).m = <<>>
    /\ NLess(RefTrunc(x), NPow10(15))

\* The fractional part rounds up to a whole: six digits cannot hold it.
RefCarries(x) ==
    /\ x.cls = "fin"
    /\ RefMillionths(x) = NPow10(6)

RefFormat(x) ==
    IF x.cls = "nan" THEN <<34, 78, 97, 78, 34>>
    ELSE IF x.cls = "inf"
    THEN <<34, IF x.neg THEN 45 ELSE 43, 73, 110, 102, 34>>
    ELSE IF x.m = <<>> THEN <<48>>
    ELSE LET sign == IF x.neg THEN <<45>> ELSE <<>>
         IN  IF RefWholeBelow1e15(x) THEN sign \o NText(RefTrunc(x))
             ELSE sign \o NText(RefTrunc(x)) \o <<46>>
                       \o RefTrim(SixDigits(RefMillionths(x)))

FloatDone == ftoa.pc = "done"

\* The magnitude is below 2^63, so that int64 holds the integer part.
FitsInt64(x) == x.cls = "fin" /\ NLess(RefTrunc(x), NPow2(63))

\* C11: float append follows the reference format for every input: the
\* quoted names for NaN and the infinities, 0 for zero, the integer text for
\* a whole number below 1e15, and otherwise sign, integer part, point and
\* the rounded millionths as six digits trimmed of trailing zeros.  (A
\* fraction that rounds up to 1000000 millionths has no six-digit form and
\* is left to C15.)
C11_ReferenceFormat ==
    FloatDone /\ ~RefCarries(ftoa.v0) => ftoa.dst = RefFormat(ftoa.v0)

\* A float of magnitude 2^63 or more has been encoded.
C11_Witness ==
    /\ FloatDone
    /\ ftoa.v0.cls = "fin" /\ ~FitsInt64(ftoa.v0)

\* What does hold: the reference format for every input whose integer part
\* int64 can hold.
FormatWithinInt64 ==
    FloatDone /\ ~RefCarries(ftoa.v0)
        /\ (ftoa.v0.cls = "fin" => FitsInt64(ftoa.v0))
        => ftoa.dst = RefFormat(ftoa.v0)

(***************************************************************************)
(* The number a float text denotes                                         *)
(***************************************************************************)
IsDigit(b) == b >= 48 /\ b <= 57

\* The natural number written by the digits ds, after acc.
RECURSIVE NFromDigits(_, _)
NFromDigits(ds, acc) ==
    IF ds = <<>> THEN acc
    ELSE NFromDigits(Tail(ds), NAdd(NMulSmall(acc, 10), NFromInt(Head(ds) - 48)))

\* The position of the point in a text, 0 if there is none.
PointAt(t) ==
    IF \E i \in 1..Len(t) : t[i] = 46
    THEN CHOOSE i \in 1..Len(t) : t[i] = 46 /\ \A j \in 1..(i - 1) : t[j] # 46
    ELSE 0

\* t is digits, a point, and one to six digits.
IsFixedPoint(t) ==
    LET p == PointAt(t)
    IN  /\ p > 1 /\ Len(t) - p >= 1 /\ Len(t) - p <= 6
        /\ \A i \in 1..Len(t) : i # p => IsDigit(t[i])

\* The number a fixed-point text denotes, in millionths.
TextMillionths(t) ==
    LET p    == PointAt(t)
        frac == SubSeq(t, p + 1, Len(t)) \o [k \in 1..(6 - (Len(t) - p)) |-> 48]
    IN  NFromDigits(SubSeq(t, 1, p - 1) \o frac, <<>>)

\* |a - b| for natural numbers.
NDist(a, b) == IF NLess(a, b) THEN NSub(b, a) ELSE NSub(a, b)

\* The text t (of millionths) is within 0.0000005 of m / 2^k:
\* 2 * |T * 2^k - m * 10^6| <= 2^k.
Within(t, m, k) ==
    LET d == NDist(NShl(TextMillionths(t), k), NMulSmall(NMulSmall(m, 1000), 1000))
    IN  ~NLess(NPow2(k), NShl(d, 1))

\* The text carries the sign of x and its digits are within 0.0000005 of |x|.
DenotesWithin(text, x) ==
    LET signed == text # <<>> /\ text[1] = 45
        t      == IF signed THEN Tail(text) ELSE text
    IN  /\ signed = x.neg
        /\ IsFixedPoint(t)
        /\ Within(t, x.m, -x.e)

\* A finite value that is not whole and has magnitude below 1e15.
NonWholeBelow1e15(x) ==
    /\ x.cls = "fin"
    /\ RefFrac(x).m # <<>>
    /\ NLess(RefTrunc(x), NPow10(15))

\* C15: for every finite non-whole v of magnitude below 1e15 the text that
\* float append (and duration append, on the seconds) emits denotes a number
\* within 0.0000005 of v; a fraction that rounds up to 1000000 millionths
\* carries into the integer part.
C15_FloatAccuracy ==
    FloatDone /\ NonWholeBelow1e15(ftoa.v0) => DenotesWithin(ftoa.dst, ftoa.v0)

\* A value whose fraction rounds up to a whole has been encoded.
C15_Witness ==
    /\ FloatDone
    /\ NonWholeBelow1e15(ftoa.v0)
    /\ RefCarries(ftoa.v0)

(***************************************************************************)
(* Claims about the error field                                            *)
(***************************************************************************)
\* What follows "error": in the rendering of the field.
ErrValueText == SubSeq(mk.dst, Len(ErrorKey) + 4, Len(mk.dst))

\* C12: the error field constructor is total.  Err of a nil error is a
\* String-tagged field with key "error" and empty value; Err of a present
\* error is an Error-tagged field with key "error" carrying the error's
\* text; either is rendered as "error": followed by one escaped JSON string
\* (which reads back as the text when the text is valid UTF-8), never as an
\* object.
C12_ErrTotal ==
    /\ mk.pc \in {"made", "done"} =>
        /\ mk.f.Key = ErrorKey
        /\ mk.val.isNil => mk.f.Type = StringType /\ mk.f.Str = <<>>
        /\ ~mk.val.isNil => mk.f.Type = ErrorType /\ mk.f.Str = mk.val.text
    /\ mk.pc = "done" =>
        /\ IsPrefix(<<34>> \o ErrorKey \o <<34, 58>>, mk.dst)
        /\ ErrValueText # <<>> /\ ErrValueText[1] = 34
        /\ JSONUnquote(ErrValueText).ok
        /\ mk.val.isNil => ErrValueText = <<34, 34>>
        /\ ~mk.val.isNil /\ ValidUTF8(mk.val.text)
               => JSONUnquote(ErrValueText).val = mk.val.text

\* Err(nil) has been called and its field rendered.
C12_Witness ==
    /\ mk.pc = "done"
    /\ mk.val.isNil
    /\ mk.f.Type = StringType

\* A present error with text that needs escaping has been rendered too.
ErrPresentRendered ==
    /\ mk.pc = "done"
    /\ ~mk.val.isNil
    /\ Has(mk.val.text, LAMBDA b : b = 34)
    /\ Has(mk.val.text, LAMBDA b : b = 10)

(***************************************************************************)
(* Claims about malformed input                                            *)
(***************************************************************************)
\* The escape of one ASCII byte, as the format specifies it.
RefEscapeByte(b) ==
    IF b = 34 THEN <<92, 34>>
    ELSE IF b = 92 THEN <<92, 92>>
    ELSE IF b = 10 THEN <<92, 110>>
    ELSE IF b = 13 THEN <<92, 114>>
    ELSE IF b = 9 THEN <<92, 116>>
    ELSE IF b < 32 \/ b = 127
    THEN <<92, 117, 48, 48>>
             \o <<IF b \div 16 < 10 THEN 48 + (b \div 16) ELSE 87 + (b \div 16),
                  IF b % 16 < 10 THEN 48 + (b % 16) ELSE 87 + (b % 16)>>
    ELSE <<b>>

\* The escaped text of s from position k, one character at a time: a byte
\* that starts no well-formed encoding becomes the escape \ufffd and the scan moves on
\* by that one byte.
RECURSIVE RefEscape(_, _)
RefEscape(s, k) ==
    IF k > Len(s) THEN <<>>
    ELSE LET n == RuneLen(SubSeq(s, k, Len(s)))
         IN  IF n = 0 THEN <<92, 117, 102, 102, 102, 100>> \o RefEscape(s, k + 1)
             ELSE IF n = 1 THEN RefEscapeByte(s[k]) \o RefEscape(s, k + 1)
             ELSE SubSeq(s, k, k + n - 1) \o RefEscape(s, k + n)

\* What a run of the string append has consumed is escaped in dst, and the
\* scan is inside the input.
EscConsumed ==
    esc.pc # "off" =>
        /\ esc.i >= 0 /\ esc.i <= Len(esc.s)
        /\ esc.pc = "done" =>
            /\ esc.i = Len(esc.s)
            /\ esc.dst = <<34>> \o RefEscape(esc.s, 1) \o <<34>>
            /\ ValidUTF8(esc.dst)

\* A step of the scan consumes at least one byte.
EscAdvances == esc.pc = "loop" /\ esc'.pc = "loop" => esc'.i > esc.i

\* C13: malformed input is substituted, not propagated.  For any byte
\* sequence, each byte that starts an invalid UTF-8 encoding is replaced by
\* the escape \ufffd and every valid run is emitted as specified; each step of the
\* alternating scan advances by at least one byte; the scan ends, having
\* consumed the whole input.
C13_MalformedSubstituted ==
    /\ []EscConsumed
    /\ [][EscAdvances]_vars
    /\ <>(esc.pc = "done")

\* A run on input with a malformed byte between valid characters has ended.
C13_Witness ==
    /\ esc.pc = "done"
    /\ ~ValidUTF8(esc.s)
    /\ Len(esc.s) >= 3
    /\ RuneLen(esc.s) > 0
    /\ Contains(esc.dst, <<92, 117, 102, 102, 102, 100>>)

(***************************************************************************)
(* Claims about the line a record makes                                    *)
(***************************************************************************)
\* The members of the line s as its bytes delimit them: '{', then "key":value
\* with one comma between neighbours, where a value is a quoted string or a
\* run of bytes that holds no quote, brace, colon, comma or newline, then '}'
\* and '\n'.  A quote ends a string unless a backslash escapes it.
ReadLine(s) ==
    LET toks == Lex(s, 1, <<>>)
        n    == Len(toks)
        m    == n - 3
        IsP(j, b) == toks[j].t = "p" /\ toks[j].v = <<b>>
        IsStr(j)  == toks[j].t = "str" /\ JSONUnquote(toks[j].v).ok
        shape ==
            /\ n >= 6
            /\ IsP(1, 123) /\ IsP(n - 1, 125) /\ IsP(n, 10)
            /\ m % 4 = 3
            /\ \A i \in 1..m :
                    CASE i % 4 = 1 -> IsStr(1 + i)
                      [] i % 4 = 2 -> IsP(1 + i, 58)
                      [] i % 4 = 3 -> IsStr(1 + i) \/ toks[1 + i].t = "lit"
                      [] OTHER     -> IsP(1 + i, 44)
    IN  IF shape
        THEN [ok   |-> TRUE,
              keys |-> [j \in 1..((m + 1) \div 4) |-> toks[4 * j - 2].v],
              vals |-> [j \in 1..((m + 1) \div 4) |-> toks[4 * j].v]]
        ELSE RecordFail

\* The quoted string q denotes the text s, where each byte of s that starts
\* no well-formed encoding reads back as U+FFFD.
Denotes(q, s) ==
    LET u == JSONUnquote(q)
    IN  /\ u.ok
        /\ ValidUTF8(s) => u.val = s
        /\ u.val = JSONUnquote(<<34>> \o RefEscape(s, 1) \o <<34>>).val

\* The text a field gives as its value, for the fields that give text.
TextOf(f) ==
    IF f.Type = BytesType THEN f.Bval ELSE f.Str

====
